---------------------------- MODULE Spec2Model ----------------------------
(***************************************************************************)
(* A model of the storage stack of the Pintos tree in src/: the sector     *)
(* cache (filesys/fsdisk.c), the reader/writer lock (threads/synch.c), the *)
(* free-sector map (filesys/free-map.c over lib/kernel/bitmap.c), the      *)
(* in-core inode registry (filesys/inode.c), path resolution               *)
(* (filesys/filesys.c, filesys/directory.c), the data of one inode: its    *)
(* sector index, reads, writes and removal (filesys/inode.c), the entries  *)
(* and the entry counter of a directory (filesys/directory.c), creates     *)
(* and removes of two threads in one directory, and the virtual memory of  *)
(* user processes: the frame table (vm/frametbl.c), the swap table         *)
(* (vm/swaptbl.c) and the supplemental page tables (vm/mappings.c), two    *)
(* threads that read and write one file at once (filesys/inode.c), and     *)
(* the file mappings of a process (userprog/syscall.c).                    *)
(*                                                                         *)
(* Each component has its own specification (SpecRW, SpecFreeMap, ...)     *)
(* over its own group of variables; the variables of the other components  *)
(* keep their initial values under it.  Kernel threads are preemptible at  *)
(* every instruction that does not run with interrupts disabled, so every  *)
(* action below is one stretch of code that no other thread can observe    *)
(* half-done: an interrupts-off section, or a stretch that only touches    *)
(* data protected by a lock the thread holds.                              *)
(***************************************************************************)
EXTENDS Integers, Sequences, FiniteSets, TLC

VARIABLES
    \* threads/synch.c: one reader/writer lock and the threads that use it
    rwlock,         \* the rwlock_t: num_holders, r_waiters, w_waiters
    rwth,           \* per thread: position in rw_*_acquire/release, thread->time
    ticks,          \* timer_ticks()
    \* filesys/free-map.c: the free-sector bitmap in the cache's buffer
    free_map,       \* the bitmap_t in free_map_buffer: bit_cnt and the set bits
    free_map_lock,  \* holder of free_map_lock, or NoThread
    free_map_dirty, \* fsdisk.c's free_map_dirty
    fmth,           \* per thread: position in free_map_get/allocate/release
    fm_panic,       \* an ASSERT of the free map or the bitmap has failed
    \* filesys/inode.c: the in-core inodes and their registry
    inodes,         \* per struct inode: allocated or not, sector, open_cnt
    open_inodes,    \* the list open_inodes, front first
    open_lock,      \* holder of open_lock, or NoThread
    inth,           \* per thread: position in inode_open/inode_close, locals
    irefs,          \* per thread: the references it was given and has not closed
    inode_ub,       \* freed memory was used: anything may follow
    \* filesys/filesys.c, directory.c: path operations of one process
    fs,             \* per sector: open_cnt of its in-core inode, removed, kind
                    \* (free, file, dir) and the entries of a directory
    fs_wd,          \* the inode sector of thread_current()->wd, or NO_SECTOR
    fs_fds,         \* per sector: the file descriptors the process has on it
    \* filesys/fsdisk.c: the sector cache
    entries,        \* the cache_entry_t array
    cache,          \* the hash: the slots that are inserted in it
    cache_lock,     \* holder of cache_lock, or NoThread
    clock_hand,     \* entry_to_evict()'s static clock_hand, modulo CACHE_SECTORS
    cache_closed,   \* fsdisk.c's cache_closed
    disk,           \* the block device: per data sector its contents
    free_map_disk,  \* the block device: the free map's sectors (the set bits)
    store,          \* per data sector the contents last written through the cache
    cath,           \* per thread: position in fs_cache_*, locals
    cache_calls,    \* the calls of the cache's interface made so far
    \* filesys/inode.c: the data of one file
    file,           \* its on-disk inode, index and data sectors, its in-core
                    \* inode, its directory entry and the device's free map
    \* filesys/directory.c: one directory and the entries made in it
    sdir,           \* the directory's inode, its slots and the free sectors
    \* filesys/filesys.c: threads creating in and removing one directory
    cdir,           \* the directory, its parent's entry and the threads
    \* vm/frametbl.c, mappings.c, swaptbl.c: frames, mappings and swap slots
    vm,             \* the frame table, the mappings and page directories of
                    \* the processes, the swap slots and the threads
    \* filesys/inode.c: two threads reading and writing one file
    cfile,          \* the file's index and sectors, the content locks of
                    \* their cache slots and the threads
    \* userprog/syscall.c: the file mappings of one process
    mm              \* the file's length, the supplemental page table and
                    \* the pages each mmap installed

rwVars == <<rwlock, rwth, ticks>>
fmVars == <<free_map, free_map_lock, free_map_dirty, fmth, fm_panic>>

inVars == <<inodes, open_inodes, open_lock, inth, irefs, inode_ub>>

fsVars == <<fs, fs_wd, fs_fds>>

caVars == <<entries, cache, cache_lock, clock_hand, cache_closed, disk,
            free_map_disk, store, cath, cache_calls>>

fdVars == <<file, sdir, cdir, vm, cfile, mm>>

vars == <<rwVars, fmVars, inVars, fsVars, caVars, fdVars>>

\* No thread: the holder of a free lock_t.
NoThread == 0

(***************************************************************************)
(* Reader/writer lock: threads/synch.c, struct rwlock in threads/synch.h.  *)
(***************************************************************************)
RWFrame == UNCHANGED <<fmVars, inVars, fsVars, caVars, fdVars>>

\* Number of threads that use the one reader/writer lock.
NumRWThreads == 3
\* Cap on the timer, which only ever grows.
MaxTicks == 2

RWThreads == 1..NumRWThreads

\* INT64_MAX, as far as thread->time can tell: larger than every tick.
INT64_MAX == MaxTicks + 100

\* rw_init(): nobody holds the lock, nobody waits.
rw_init == [num_holders |-> 0, r_waiters |-> <<>>, w_waiters |-> <<>>]

\* front_write_waiter_time(): the enqueue time of the first write waiter.
front_write_waiter_time(lock) ==
    IF lock.w_waiters = <<>> THEN INT64_MAX
    ELSE rwth[Head(lock.w_waiters)].time

\* The readers rw_unblock_waiters() dequeues when both lists are non-empty
\* and the first reader is older than the first writer: the leading readers
\* whose time is below the first write waiter's.
RECURSIVE LeadingReaders(_, _)
LeadingReaders(rs, wtime) ==
    IF rs = <<>> \/ rwth[Head(rs)].time >= wtime THEN <<>>
    ELSE <<Head(rs)>> \o LeadingReaders(Tail(rs), wtime)

SeqRange(s) == {s[i] : i \in 1..Len(s)}

\* rw_unblock_waiters(): the lock after the dequeues and the threads woken.
rw_unblock_waiters(lock) ==
    IF lock.r_waiters # <<>> /\ lock.w_waiters # <<>> THEN
        IF rwth[Head(lock.r_waiters)].time >= rwth[Head(lock.w_waiters)].time
        THEN [lock  |-> [lock EXCEPT !.w_waiters = Tail(@)],
              woken |-> {Head(lock.w_waiters)}]
        ELSE LET out == LeadingReaders(lock.r_waiters,
                                       rwth[Head(lock.w_waiters)].time)
             IN [lock  |-> [lock EXCEPT !.r_waiters =
                                SubSeq(@, Len(out) + 1, Len(@))],
                 woken |-> SeqRange(out)]
    ELSE IF lock.w_waiters # <<>> THEN
        [lock  |-> [lock EXCEPT !.w_waiters = Tail(@)],
         woken |-> {Head(lock.w_waiters)}]
    ELSE
        [lock  |-> [lock EXCEPT !.r_waiters = <<>>],
         woken |-> SeqRange(lock.r_waiters)]

\* thread_unblock() of every thread in ws: each goes back to the head of the
\* while loop it blocked in.
Unblocked(ws) ==
    [t \in RWThreads |->
        IF t \in ws
        THEN [rwth[t] EXCEPT !.pc = IF @ = "r_blocked" THEN "r_try" ELSE "w_try"]
        ELSE rwth[t]]

\* The loop condition of rw_read_acquire(): a writer holds the lock, or a
\* writer that asked earlier is waiting.
ReadMustWait(lock, t) ==
    lock.num_holders < 0 \/ rwth[t].time > front_write_waiter_time(lock)

\* A writer that only waits for another writer, not for readers.
WriteMustWaitWriterOnly(lock) == lock.num_holders < 0

\* The loop condition of rw_write_acquire(): anybody holds the lock.
WriteMustWait(lock) == lock.num_holders # 0

\* cur->time = timer_ticks(), the first statement of both acquires.
rw_stamp(t) ==
    /\ rwth[t].pc = "idle"
    /\ \E m \in {"r_try", "w_try"} :
          rwth' = [rwth EXCEPT ![t] = [pc |-> m, time |-> ticks]]
    /\ UNCHANGED <<rwlock, ticks>>
    /\ RWFrame

\* rw_read_acquire() from intr_disable(): one pass of the while loop, to
\* thread_block() or to the increment.
rw_read_acquire(t) ==
    /\ rwth[t].pc = "r_try"
    /\ IF ReadMustWait(rwlock, t)
       THEN /\ rwlock' = [rwlock EXCEPT !.r_waiters = Append(@, t)]
            /\ rwth' = [rwth EXCEPT ![t].pc = "r_blocked"]
       ELSE /\ rwlock' = [rwlock EXCEPT !.num_holders = @ + 1]
            /\ rwth' = [rwth EXCEPT ![t].pc = "reading"]
    /\ UNCHANGED ticks
    /\ RWFrame

\* rw_write_acquire() from intr_disable().
rw_write_acquire(t) ==
    /\ rwth[t].pc = "w_try"
    /\ IF WriteMustWait(rwlock)
       THEN /\ rwlock' = [rwlock EXCEPT !.w_waiters = Append(@, t)]
            /\ rwth' = [rwth EXCEPT ![t].pc = "w_blocked"]
       ELSE /\ rwlock' = [rwlock EXCEPT !.num_holders = -1]
            /\ rwth' = [rwth EXCEPT ![t].pc = "writing"]
    /\ UNCHANGED ticks
    /\ RWFrame

\* rw_read_release(): --num_holders, and the wake-up when it reaches 0.
rw_read_release(t) ==
    /\ rwth[t].pc = "reading"
    /\ LET l1 == [rwlock EXCEPT !.num_holders = @ - 1]
           u  == IF l1.num_holders = 0 THEN rw_unblock_waiters(l1)
                 ELSE [lock |-> l1, woken |-> {}]
       IN /\ rwlock' = u.lock
          /\ rwth' = [Unblocked(u.woken) EXCEPT ![t].pc = "idle"]
    /\ UNCHANGED ticks
    /\ RWFrame

\* rw_write_release(): ++num_holders, then the wake-up.
rw_write_release(t) ==
    /\ rwth[t].pc = "writing"
    /\ LET u == rw_unblock_waiters([rwlock EXCEPT !.num_holders = @ + 1])
       IN /\ rwlock' = u.lock
          /\ rwth' = [Unblocked(u.woken) EXCEPT ![t].pc = "idle"]
    /\ UNCHANGED ticks
    /\ RWFrame

\* The timer interrupt: timer_ticks() grows by one.
timer_tick ==
    /\ ticks < MaxTicks
    /\ ticks' = ticks + 1
    /\ UNCHANGED <<rwlock, rwth>>
    /\ RWFrame

InitRW ==
    /\ rwlock = rw_init
    /\ rwth = [t \in RWThreads |-> [pc |-> "idle", time |-> 0]]
    /\ ticks = 0

NextRW ==
    \/ timer_tick
    \/ \E t \in RWThreads : rw_stamp(t)
    \/ \E t \in RWThreads : rw_read_acquire(t)
    \/ \E t \in RWThreads : rw_write_acquire(t)
    \/ \E t \in RWThreads : rw_read_release(t)
    \/ \E t \in RWThreads : rw_write_release(t)


RWReaders == {t \in RWThreads : rwth[t].pc = "reading"}
RWWriters == {t \in RWThreads : rwth[t].pc = "writing"}

\* C5: at every moment the holders of a reader/writer lock are nobody, one
\* or more readers, or exactly one writer; num_holders counts them (-1 for
\* the writer).
C5_RWExclusion ==
    /\ Cardinality(RWWriters) <= 1
    /\ RWWriters # {} => RWReaders = {}
    /\ rwlock.num_holders =
          IF RWWriters # {} THEN -1 ELSE Cardinality(RWReaders)

\* C5 witness: a writer holds the lock while a reader and another writer
\* are queued behind it.
C5_Witness ==
    /\ RWWriters # {}
    /\ rwlock.r_waiters # <<>>
    /\ rwlock.w_waiters # <<>>

(***************************************************************************)
(* Free-sector map: filesys/free-map.c over lib/kernel/bitmap.c, in the    *)
(* buffer and under the lock of filesys/fsdisk.c.                          *)
(***************************************************************************)
FMFrame == UNCHANGED <<rwVars, inVars, fsVars, caVars, fdVars>>

\* Threads that allocate and release sectors.
NumFMThreads == 2
\* A thread holds at most this many sectors at a time.
MaxHeld == 1
\* The smallest device of the model, in sectors.
SmallDisk == 3
\* At most this many sectors of the device are free when the threads start.
MaxFreeAtStart == 1

FMThreads == 1..NumFMThreads

\* Bits of an elem_type (unsigned long on the 32-bit target).
ELEM_BITS == 32
\* SIZE_MAX, that is (size_t) -1: the "not found" result of the bitmap
\* searches, which no bit index of the model reaches.
BITMAP_ERROR == -1
ROOT_DIR_SECTOR == 0
FREE_MAP_START == 1
BLOCK_SECTOR_SIZE == 512
\* sizeof(bitmap_t) and sizeof(elem_type) on the 32-bit target.
SizeofBitmap == 8
SizeofElem == 4

DIV_ROUND_UP(x, step) == (x + step - 1) \div step

Min(S) == CHOOSE x \in S : \A y \in S : x <= y

\* elem_cnt(): the elements needed for bit_cnt bits.
elem_cnt(bit_cnt) == DIV_ROUND_UP(bit_cnt, ELEM_BITS)

\* bitmap_buf_size(): header plus elements.
bitmap_buf_size(bit_cnt) == SizeofBitmap + SizeofElem * elem_cnt(bit_cnt)

\* The sectors the bitmap itself occupies (fs_cache_init, free_map_create).
free_map_sectors(disk_size) ==
    DIV_ROUND_UP(bitmap_buf_size(disk_size), BLOCK_SECTOR_SIZE)

\* The device sizes of the model: below one element, exactly one element,
\* one element and a bit.
DiskSizes == {SmallDisk, ELEM_BITS, ELEM_BITS + SmallDisk}

\* fs_disk_size(): the bitmap has one bit per sector of the device.
fs_disk_size == free_map.bit_cnt

\* b->bits[i] as the set of bit positions j that are set in element i.
Elem(b, i) == {j \in 0..(ELEM_BITS - 1) : (i * ELEM_BITS + j) \in b.bits}

\* bitmap_lowest(): the first element that is not "empty" for VALUE, and in
\* it the first of its ELEM_BITS bits that has VALUE.
bitmap_lowest(b, value) ==
    LET empty == IF value THEN {} ELSE 0..(ELEM_BITS - 1)
        hits  == {i * ELEM_BITS + j : i \in {e \in 0..(elem_cnt(b.bit_cnt) - 1) :
                                                Elem(b, e) # empty},
                                      j \in 0..(ELEM_BITS - 1)}
        match == {k \in hits : (k \in b.bits) = value}
    IN IF match = {} THEN BITMAP_ERROR ELSE Min(match)

\* bitmap_mark(): an orl on the element, with no range check.
bitmap_mark(b, bit_idx) == [b EXCEPT !.bits = @ \cup {bit_idx}]

\* The ASSERTs of bitmap_contains(): the range lies inside the bitmap.
bitmap_range_ok(b, start, cnt) == start <= b.bit_cnt /\ start + cnt <= b.bit_cnt

\* bitmap_contains(): some bit of [start, start + cnt) has VALUE.
bitmap_contains(b, start, cnt, value) ==
    \E i \in 0..(cnt - 1) : ((start + i) \in b.bits) = value

\* bitmap_all(): every bit of the range is set.
bitmap_all(b, start, cnt) == ~bitmap_contains(b, start, cnt, FALSE)

\* bitmap_set_multiple().
bitmap_set_multiple(b, start, cnt, value) ==
    [b EXCEPT !.bits = IF value THEN @ \cup (start..(start + cnt - 1))
                       ELSE @ \ (start..(start + cnt - 1))]

\* bitmap_scan(): the first run of cnt bits with VALUE at or after start.
bitmap_scan(b, start, cnt, value) ==
    IF cnt <= b.bit_cnt
    THEN LET ok == {i \in start..(b.bit_cnt - cnt) :
                        ~bitmap_contains(b, i, cnt, ~value)}
         IN IF ok = {} THEN BITMAP_ERROR ELSE Min(ok)
    ELSE BITMAP_ERROR

\* The test that fs_cache_get_free_map_buf() may proceed, without the lock.
FreeMapLockFreeNoLock == TRUE

\* lock_acquire(&free_map_lock) can proceed.
FreeMapLockFree == free_map_lock = NoThread

\* A thread outside the free map's functions; held: the sectors it was given
\* and has not released; before: the bits when its search ran.
FMThreadIdle ==
    [pc |-> "idle", op |-> "none", sector |-> 0, cnt |-> 1, found |-> FALSE,
     held |-> {}, before |-> {}]

\* A call of free_map_get(), free_map_allocate(cnt) or free_map_release(s, cnt)
\* by an idle thread; release is only called on what the thread was given.
free_map_call(t) ==
    /\ ~fm_panic
    /\ fmth[t].pc = "idle"
    /\ \/ /\ Cardinality(fmth[t].held) < MaxHeld
          /\ fmth' = [fmth EXCEPT ![t].pc = "lock", ![t].op = "get",
                                   ![t].cnt = 1]
       \/ /\ Cardinality(fmth[t].held) < MaxHeld
          /\ \E n \in 1..2 :
                fmth' = [fmth EXCEPT ![t].pc = "lock", ![t].op = "allocate",
                                     ![t].cnt = n]
       \/ \E s \in fmth[t].held :
             fmth' = [fmth EXCEPT ![t].pc = "lock", ![t].op = "release",
                                  ![t].sector = s, ![t].cnt = 1]
    /\ UNCHANGED <<free_map, free_map_lock, free_map_dirty, fm_panic>>
    /\ FMFrame

\* fs_cache_get_free_map_buf(): lock_acquire(&free_map_lock).
fs_cache_get_free_map_buf(t) ==
    /\ ~fm_panic
    /\ fmth[t].pc = "lock"
    /\ FreeMapLockFree
    /\ free_map_lock' = t
    /\ fmth' = [fmth EXCEPT ![t].pc = "scan"]
    /\ UNCHANGED <<free_map, free_map_dirty, fm_panic>>
    /\ FMFrame

\* free_map_get(): sector = bitmap_lowest(free_map, false).
free_map_get_lowest(t) ==
    /\ ~fm_panic
    /\ fmth[t].pc = "scan" /\ fmth[t].op = "get"
    /\ fmth' = [fmth EXCEPT ![t].pc = "mark",
                            ![t].sector = bitmap_lowest(free_map, FALSE)]
    /\ UNCHANGED <<free_map, free_map_lock, free_map_dirty, fm_panic>>
    /\ FMFrame

\* free_map_get(): if (found) bitmap_mark(free_map, sector).
free_map_get_mark(t) ==
    /\ ~fm_panic
    /\ fmth[t].pc = "mark" /\ fmth[t].op = "get"
    /\ free_map' = IF fmth[t].sector # BITMAP_ERROR
                   THEN bitmap_mark(free_map, fmth[t].sector)
                   ELSE free_map
    /\ fmth' = [fmth EXCEPT ![t].pc = "unlock",
                            ![t].found = fmth[t].sector # BITMAP_ERROR,
                            ![t].before = free_map.bits]
    /\ UNCHANGED <<free_map_lock, free_map_dirty, fm_panic>>
    /\ FMFrame

\* free_map_allocate(): bitmap_scan_and_flip(free_map, 0, cnt, false).
free_map_allocate_scan(t) ==
    /\ ~fm_panic
    /\ fmth[t].pc = "scan" /\ fmth[t].op = "allocate"
    /\ fmth' = [fmth EXCEPT ![t].pc = "mark",
                            ![t].sector = bitmap_scan(free_map, 0, fmth[t].cnt, FALSE)]
    /\ UNCHANGED <<free_map, free_map_lock, free_map_dirty, fm_panic>>
    /\ FMFrame

\* bitmap_scan_and_flip(): if (idx != BITMAP_ERROR) bitmap_set_multiple(...).
free_map_allocate_flip(t) ==
    /\ ~fm_panic
    /\ fmth[t].pc = "mark" /\ fmth[t].op = "allocate"
    /\ free_map' = IF fmth[t].sector # BITMAP_ERROR
                   THEN bitmap_set_multiple(free_map, fmth[t].sector, fmth[t].cnt, TRUE)
                   ELSE free_map
    /\ fmth' = [fmth EXCEPT ![t].pc = "unlock",
                            ![t].found = fmth[t].sector # BITMAP_ERROR,
                            ![t].before = free_map.bits]
    /\ UNCHANGED <<free_map_lock, free_map_dirty, fm_panic>>
    /\ FMFrame

\* free_map_release(): ASSERT(bitmap_all(...)), with the ASSERTs of
\* bitmap_contains() inside it, then bitmap_set_multiple(..., false).
free_map_release_reset(t) ==
    /\ ~fm_panic
    /\ fmth[t].pc = "scan" /\ fmth[t].op = "release"
    /\ IF /\ bitmap_range_ok(free_map, fmth[t].sector, fmth[t].cnt)
          /\ bitmap_all(free_map, fmth[t].sector, fmth[t].cnt)
       THEN /\ free_map' = bitmap_set_multiple(free_map, fmth[t].sector,
                                               fmth[t].cnt, FALSE)
            /\ fmth' = [fmth EXCEPT ![t].pc = "unlock",
                                    ![t].held = @ \ {fmth[t].sector}]
            /\ UNCHANGED fm_panic
       ELSE /\ fm_panic' = TRUE
            /\ UNCHANGED <<free_map, fmth>>
    /\ UNCHANGED <<free_map_lock, free_map_dirty>>
    /\ FMFrame

\* fs_cache_release(free_map_buffer): free_map_dirty = true and
\* lock_release(&free_map_lock); then the caller's return: *sectorp = sector
\* when the search found one.
fs_cache_release_free_map(t) ==
    /\ ~fm_panic
    /\ fmth[t].pc = "unlock"
    /\ free_map_dirty' = TRUE
    /\ free_map_lock' = NoThread
    /\ fmth' = [fmth EXCEPT
          ![t] = [FMThreadIdle EXCEPT
             !.held = IF fmth[t].op # "release" /\ fmth[t].found
                      THEN fmth[t].held \cup
                           (fmth[t].sector..(fmth[t].sector + fmth[t].cnt - 1))
                      ELSE fmth[t].held]]
    /\ UNCHANGED <<free_map, fm_panic>>
    /\ FMFrame

\* A device of one of the model's sizes on which earlier runs allocated the
\* first k sectors: free_map_create() marks the root directory's sector and
\* the bitmap's own, and every free_map_get() since took the lowest clear bit.
InitFreeMap ==
    /\ \E size \in DiskSizes :
       \E k \in (ROOT_DIR_SECTOR + 1 + free_map_sectors(size))..size :
          /\ size - k <= MaxFreeAtStart
          /\ free_map = [bit_cnt |-> size, bits |-> 0..(k - 1)]
    /\ free_map_lock = NoThread
    /\ free_map_dirty = FALSE
    /\ fmth = [t \in FMThreads |-> FMThreadIdle]
    /\ fm_panic = FALSE

InitFreeMapIdle ==
    /\ free_map = [bit_cnt |-> SmallDisk, bits |-> {}]
    /\ free_map_lock = NoThread
    /\ free_map_dirty = FALSE
    /\ fmth = [t \in FMThreads |-> FMThreadIdle]
    /\ fm_panic = FALSE

NextFreeMap ==
    \/ \E t \in FMThreads : free_map_call(t)
    \/ \E t \in FMThreads : fs_cache_get_free_map_buf(t)
    \/ \E t \in FMThreads : free_map_get_lowest(t)
    \/ \E t \in FMThreads : free_map_get_mark(t)
    \/ \E t \in FMThreads : free_map_allocate_scan(t)
    \/ \E t \in FMThreads : free_map_allocate_flip(t)
    \/ \E t \in FMThreads : free_map_release_reset(t)
    \/ \E t \in FMThreads : fs_cache_release_free_map(t)

\* The sectors of the device that the bitmap records as allocated.
Allocated == {k \in free_map.bits : k < fs_disk_size}

\* C6: every sector a caller was given and has not released has its bit set
\* and was given to no other caller; right after a release (the releasing
\* thread still holds the lock) the released bit is clear.
C6_AllocatorExclusive ==
    /\ \A t \in FMThreads : fmth[t].held \subseteq free_map.bits
    /\ \A t, u \in FMThreads : t # u => fmth[t].held \cap fmth[u].held = {}
    /\ \A t \in FMThreads :
          (fmth[t].pc = "unlock" /\ fmth[t].op = "release")
             => fmth[t].sector \notin free_map.bits
    /\ \A t \in FMThreads :
          (fmth[t].pc = "unlock" /\ fmth[t].op # "release" /\ fmth[t].found)
             => \A u \in FMThreads : fmth[t].sector \notin fmth[u].held

\* C6 witness: a thread has just released a sector and still holds the lock,
\* while another thread, holding a sector of its own, waits for the lock.
C6_Witness ==
    \E t, u \in FMThreads :
       /\ fmth[t].pc = "unlock" /\ fmth[t].op = "release"
       /\ fmth[u].pc = "lock" /\ fmth[u].op = "release"
       /\ fmth[u].held # {}

\* C7: a request that cannot be satisfied fails and leaves the bitmap as it
\* was (get: every sector of the device is allocated; allocate(n): no run of
\* n free sectors), and a successful get returns the lowest clear bit, which
\* lies below the device's sector count.
C7_GetWithinDevice ==
    \A t \in FMThreads :
       (fmth[t].pc = "unlock" /\ fmth[t].op = "get") =>
          LET free == (0..(fs_disk_size - 1)) \ fmth[t].before
          IN IF free = {}
             THEN ~fmth[t].found /\ free_map.bits = fmth[t].before
             ELSE fmth[t].found /\ fmth[t].sector = Min(free)
                  /\ fmth[t].sector < fs_disk_size

\* The part of C7 that is about allocate(n).
C7_AllocateNoSpace ==
    \A t \in FMThreads :
       (fmth[t].pc = "unlock" /\ fmth[t].op = "allocate") =>
          LET runs == {i \in 0..(fs_disk_size - fmth[t].cnt) :
                          \A j \in 0..(fmth[t].cnt - 1) : (i + j) \notin fmth[t].before}
          IN IF runs = {}
             THEN ~fmth[t].found /\ free_map.bits = fmth[t].before
             ELSE fmth[t].found /\ fmth[t].sector = Min(runs)

(***************************************************************************)
(* In-core inodes: filesys/inode.c, inode_open(), inode_reopen() and       *)
(* inode_close().  atomic_add() runs with interrupts off and is one step;  *)
(* the list open_inodes is only touched under open_lock.                   *)
(***************************************************************************)
INFrame == UNCHANGED <<rwVars, fmVars, fsVars, caVars, fdVars>>

\* Number of threads that open and close inodes.
NumInodeThreads == 2
\* Number of sectors that hold an inode.
NumInodeSectors == 1
\* Cap on the references one thread holds at a time.
MaxOpens == 2

InodeThreads == 1..NumInodeThreads
InodeSectors == 1..NumInodeSectors
\* The addresses malloc() can return for a struct inode.
InodeIds == 1..(NumInodeSectors + 2)
\* The null pointer.
NULL == 0

\* Number of references thread t holds in all.
RECURSIVE RefCountOver(_, _)
RefCountOver(t, hs) ==
    IF hs = {} THEN 0
    ELSE LET h == CHOOSE x \in hs : TRUE
         IN irefs[t][h] + RefCountOver(t, hs \ {h})
RefCount(t) == RefCountOver(t, InodeIds)
\* Every reference to h held by a thread of ts.
RECURSIVE SumRefs(_, _)
SumRefs(h, ts) ==
    IF ts = {} THEN 0
    ELSE LET t == CHOOSE x \in ts : TRUE
         IN irefs[t][h] + SumRefs(h, ts \ {t})

\* The struct inode pointers some thread still has: a reference it holds or
\* the local `inode' of a call in progress.
Pointed ==
    {h \in InodeIds : \E t \in InodeThreads : irefs[t][h] > 0 \/ inth[t].inode = h}

\* What malloc(sizeof *inode) may return: memory that is not allocated and
\* to which no thread keeps a pointer (a model address stands for one
\* allocation), or NULL.
MallocResults == {h \in InodeIds : ~inodes[h].allocated /\ h \notin Pointed} \cup {NULL}

\* The first element of open_inodes whose sector is s, or NULL: the loop of
\* inode_open().
RECURSIVE ListFind(_, _)
ListFind(list, s) ==
    IF list = <<>> THEN NULL
    ELSE IF inodes[Head(list)].sector = s THEN Head(list)
    ELSE ListFind(Tail(list), s)

\* list_remove(&inode->elem).
RECURSIVE ListRemove(_, _)
ListRemove(list, h) ==
    IF list = <<>> THEN <<>>
    ELSE IF Head(list) = h THEN Tail(list)
    ELSE <<Head(list)>> \o ListRemove(Tail(list), h)

InList(list, h) == \E i \in 1..Len(list) : list[i] = h

\* atomic_add(&inode->open_cnt, b): the inodes after it.
atomic_add(h, b) == [inodes EXCEPT ![h].open_cnt = @ + b]

InodeThreadIdle == [pc |-> "idle", inode |-> NULL, sector |-> 0]

\* inode_open(sector): lock_acquire(&open_lock).
inode_open_lock(t) ==
    /\ ~inode_ub
    /\ inth[t].pc = "idle"
    /\ RefCount(t) < MaxOpens
    /\ open_lock = NoThread
    /\ \E s \in InodeSectors :
          inth' = [inth EXCEPT ![t] = [pc |-> "open", inode |-> NULL, sector |-> s]]
    /\ open_lock' = t
    /\ UNCHANGED <<inodes, open_inodes, irefs, inode_ub>>
    /\ INFrame

\* inode_open(): the search of open_inodes; inode_reopen() of the inode found,
\* or malloc() and the initialisation of a new one, pushed on the list's
\* front; then lock_release(&open_lock) and the return of the pointer.
inode_open_exit(t) ==
    /\ ~inode_ub
    /\ inth[t].pc = "open"
    /\ LET found == ListFind(open_inodes, inth[t].sector)
       IN IF found # NULL
          THEN /\ inodes' = atomic_add(found, 1)
               /\ irefs' = [irefs EXCEPT ![t][found] = @ + 1]
               /\ UNCHANGED open_inodes
          ELSE \E h \in MallocResults :
                  IF h = NULL
                  THEN UNCHANGED <<inodes, open_inodes, irefs>>
                  ELSE /\ inodes' = [inodes EXCEPT ![h] =
                              [allocated |-> TRUE, sector |-> inth[t].sector,
                               open_cnt |-> 1]]
                       /\ open_inodes' = <<h>> \o open_inodes
                       /\ irefs' = [irefs EXCEPT ![t][h] = @ + 1]
    /\ open_lock' = NoThread
    /\ inth' = [inth EXCEPT ![t] = InodeThreadIdle]
    /\ UNCHANGED inode_ub
    /\ INFrame

\* inode_reopen(inode) on a reference the thread holds.  Using an inode that
\* was freed is undefined.
inode_reopen(t) ==
    /\ ~inode_ub
    /\ inth[t].pc = "idle"
    /\ \E h \in InodeIds :
          /\ irefs[t][h] > 0 /\ RefCount(t) < MaxOpens
          /\ IF inodes[h].allocated
             THEN /\ inodes' = atomic_add(h, 1)
                  /\ irefs' = [irefs EXCEPT ![t][h] = @ + 1]
                  /\ UNCHANGED inode_ub
             ELSE /\ inode_ub' = TRUE
                  /\ UNCHANGED <<inodes, irefs>>
    /\ UNCHANGED <<open_inodes, open_lock, inth>>
    /\ INFrame

\* inode_close(inode) on a reference the thread holds:
\* atomic_add(&inode->open_cnt, -1) and the test of its result.
inode_close(t) ==
    /\ ~inode_ub
    /\ inth[t].pc = "idle"
    /\ \E h \in InodeIds :
          /\ irefs[t][h] > 0
          /\ IF inodes[h].allocated
             THEN /\ inodes' = atomic_add(h, -1)
                  /\ irefs' = [irefs EXCEPT ![t][h] = @ - 1]
                  /\ inth' = [inth EXCEPT ![t] =
                        IF inodes[h].open_cnt - 1 = 0
                        THEN [pc |-> "close_lock", inode |-> h,
                              sector |-> inodes[h].sector]
                        ELSE InodeThreadIdle]
                  /\ UNCHANGED inode_ub
             ELSE /\ inode_ub' = TRUE
                  /\ UNCHANGED <<inodes, irefs, inth>>
    /\ UNCHANGED <<open_inodes, open_lock>>
    /\ INFrame

\* inode_close(), last opener: lock_acquire(&open_lock).
inode_close_lock(t) ==
    /\ ~inode_ub
    /\ inth[t].pc = "close_lock"
    /\ open_lock = NoThread
    /\ open_lock' = t
    /\ inth' = [inth EXCEPT ![t].pc = "close_remove"]
    /\ UNCHANGED <<inodes, open_inodes, irefs, inode_ub>>
    /\ INFrame

\* inode_close(), last opener: list_remove(&inode->elem) and
\* lock_release(&open_lock).  Removing an element that is in no list is
\* undefined.
inode_close_remove(t) ==
    /\ ~inode_ub
    /\ inth[t].pc = "close_remove"
    /\ IF InList(open_inodes, inth[t].inode)
       THEN /\ open_inodes' = ListRemove(open_inodes, inth[t].inode)
            /\ UNCHANGED inode_ub
       ELSE /\ inode_ub' = TRUE
            /\ UNCHANGED open_inodes
    /\ open_lock' = NoThread
    /\ inth' = [inth EXCEPT ![t].pc = "close_free"]
    /\ UNCHANGED <<inodes, irefs>>
    /\ INFrame

\* inode_close(), last opener: free(inode).
inode_close_free(t) ==
    /\ ~inode_ub
    /\ inth[t].pc = "close_free"
    /\ IF inodes[inth[t].inode].allocated
       THEN /\ inodes' = [inodes EXCEPT ![inth[t].inode].allocated = FALSE]
            /\ UNCHANGED inode_ub
       ELSE /\ inode_ub' = TRUE
            /\ UNCHANGED inodes
    /\ inth' = [inth EXCEPT ![t] = InodeThreadIdle]
    /\ UNCHANGED <<open_inodes, open_lock, irefs>>
    /\ INFrame

\* inode_init(): an empty list, a free lock, no struct inode allocated.
InitInode ==
    /\ inodes = [h \in InodeIds |-> [allocated |-> FALSE, sector |-> 0, open_cnt |-> 0]]
    /\ open_inodes = <<>>
    /\ open_lock = NoThread
    /\ inth = [t \in InodeThreads |-> InodeThreadIdle]
    /\ irefs = [t \in InodeThreads |-> [h \in InodeIds |-> 0]]
    /\ inode_ub = FALSE

NextInode ==
    \/ \E t \in InodeThreads : inode_open_lock(t)
    \/ \E t \in InodeThreads : inode_open_exit(t)
    \/ \E t \in InodeThreads : inode_reopen(t)
    \/ \E t \in InodeThreads : inode_close(t)
    \/ \E t \in InodeThreads : inode_close_lock(t)
    \/ \E t \in InodeThreads : inode_close_remove(t)
    \/ \E t \in InodeThreads : inode_close_free(t)

\* C8: while a thread holds a reference it got from inode_open() or
\* inode_reopen(), the inode is allocated and in the registry, and open_cnt
\* counts at least the references held.
C8_HandleValid ==
    \A t \in InodeThreads : \A h \in InodeIds :
       irefs[t][h] > 0 =>
          /\ inodes[h].allocated
          /\ InList(open_inodes, h)
          /\ inodes[h].open_cnt >= SumRefs(h, InodeThreads)

\* The registry alone: no two elements of open_inodes have the same sector.
C9_RegistryUnique ==
    \A i, j \in 1..Len(open_inodes) :
       inodes[open_inodes[i]].sector = inodes[open_inodes[j]].sector => i = j

\* C9: at most one in-core inode per sector: the registry holds no two
\* handles for one sector, and the references that threads hold to one
\* sector are references to the same handle.
C9_OneInodePerSector ==
    /\ C9_RegistryUnique
    /\ \A t, u \in InodeThreads : \A h, g \in InodeIds :
          (irefs[t][h] > 0 /\ irefs[u][g] > 0
             /\ inodes[h].sector = inodes[g].sector) => h = g

(***************************************************************************)
(* Path operations: filesys/filesys.c and filesys/directory.c, called by   *)
(* one process through userprog/syscall.c.  A dir_t, file_t or inode_t     *)
(* pointer is the sector of its inode; a null pointer is NO_SECTOR.  Each  *)
(* function is an operator from the file system before the call to the     *)
(* file system after it and the value returned; memory allocation and the  *)
(* device do not fail here.                                                *)
(***************************************************************************)
FSFrame == UNCHANGED <<rwVars, fmVars, inVars, caVars, fdVars>>

\* Number of sectors that can hold an inode besides the root directory's.
NumFsInodes == 2
\* Cap on the file descriptors of the process.
MaxFds == 1
\* Cap on open_cnt, which leaked references would grow for ever.
MaxOpenCnt == 3
\* Longest path, in components.
MaxPathLen == 2

NO_SECTOR == -1
SELF_STR == "."
PARENT_STR == ".."
Names == {SELF_STR, PARENT_STR, "a", "b"}
FsSectors == {ROOT_DIR_SECTOR} \cup ((FREE_MAP_START + 1)..(FREE_MAP_START + NumFsInodes))

\* A path: whether it starts with '/', its components between the slashes,
\* and whether a '/' follows the last component.  "/" is abs with no
\* component, "" is not abs with no component.
Paths ==
    {[abs |-> a, comps |-> c, trail |-> tr] :
        a \in BOOLEAN, tr \in BOOLEAN,
        c \in UNION {[1..n -> Names] : n \in 0..MaxPathLen}} \
    {q \in [abs : BOOLEAN, comps : {<<>>}, trail : {TRUE}] : TRUE}
PathEmpty(path) == ~path.abs /\ path.comps = <<>>
\* strrchr(path, '/') != NULL
PathHasSlash(path) == path.abs \/ path.trail \/ Len(path.comps) >= 2
\* path[strlen(path) - 1] == '/'
PathEndsInSlash(path) == path.trail \/ (path.abs /\ path.comps = <<>>)

\* A dir_entry_t that is not in use, and all of a new inode's entries.
NoEntry == [in_use |-> FALSE, inode_sector |-> NO_SECTOR, is_dir |-> FALSE]
NoEntries == [n \in Names |-> NoEntry]

\* inode_open(sector) by the one process: the in-core inode is created with
\* open_cnt 1, or its open_cnt goes up by one.
InodeOpen(st, sector) == [st EXCEPT !.oc[sector] = @ + 1]

\* inode_close(inode): open_cnt goes down; at 0 the in-core inode is freed,
\* and if it was removed its sector goes back to the free map.
InodeClose(st, sector) ==
    IF st.oc[sector] - 1 = 0 /\ st.removed[sector]
    THEN [st EXCEPT !.oc[sector] = 0, !.removed[sector] = FALSE,
                    !.kind[sector] = "free", !.entries[sector] = NoEntries]
    ELSE [st EXCEPT !.oc[sector] = @ - 1]

\* inode_counter_get(): the entries of a directory besides "." and "..".
inode_counter_get(st, sector) ==
    Cardinality({n \in Names \ {SELF_STR, PARENT_STR} : st.entries[sector][n].in_use})

\* The loop of filesys_locate_dir(): for each component dir_lookup() in dir;
\* on a missing entry, or on an entry that is no directory, dir_close(dir)
\* and return NULL (the inode that dir_lookup() opened stays open); else
\* dir_open(inode), dir_close(dir) and go on in the subdirectory.
RECURSIVE locate_dir_loop(_, _, _)
locate_dir_loop(st, dir, comps) ==
    IF comps = <<>> THEN [st |-> st, dir |-> dir]
    ELSE LET e == st.entries[dir][Head(comps)]
             looked == IF e.in_use THEN InodeOpen(st, e.inode_sector) ELSE st
         IN IF ~e.in_use \/ ~e.is_dir
            THEN [st |-> InodeClose(looked, dir), dir |-> NO_SECTOR]
            ELSE locate_dir_loop(InodeClose(looked, dir), e.inode_sector,
                                 Tail(comps))

\* filesys_locate_dir(path, wd, len), comps being the components within the
\* first len characters: wd = dir_open_root() for an absolute path or a null
\* wd, dir = dir_reopen(wd), the loop, and dir_close(wd) if abs, which the
\* return inside the loop skips.
filesys_locate_dir(st, path_abs, comps, wd) ==
    LET abs == path_abs \/ wd = NO_SECTOR
        wd1 == IF abs THEN ROOT_DIR_SECTOR ELSE wd
        st1 == IF abs THEN InodeOpen(st, ROOT_DIR_SECTOR) ELSE st
        r == locate_dir_loop(InodeOpen(st1, wd1), wd1, comps)
    IN IF r.dir = NO_SECTOR THEN r
       ELSE IF abs THEN [st |-> InodeClose(r.st, wd1), dir |-> r.dir]
       ELSE r

\* filesys_open_dir(path, wd).
filesys_open_dir(st, path, wd) ==
    IF PathEmpty(path) THEN [st |-> st, dir |-> NO_SECTOR]
    ELSE filesys_locate_dir(st, path.abs, path.comps, wd)

\* filesys_locate_parent(path, wd, &file_str, &dir).
filesys_locate_parent(st, path, wd) ==
    LET fail(st1) == [st |-> st1, ok |-> FALSE, dir |-> NO_SECTOR, file_str |-> ""]
    IN IF PathEmpty(path) THEN fail(st)
       ELSE IF ~PathHasSlash(path)
       THEN [st |-> InodeOpen(st, IF wd # NO_SECTOR THEN wd ELSE ROOT_DIR_SECTOR),
             ok |-> TRUE,
             dir |-> IF wd # NO_SECTOR THEN wd ELSE ROOT_DIR_SECTOR,
             file_str |-> path.comps[1]]
       ELSE IF PathEndsInSlash(path) THEN fail(st)
       ELSE LET r == filesys_locate_dir(st, path.abs,
                        SubSeq(path.comps, 1, Len(path.comps) - 1), wd)
            IN IF r.dir = NO_SECTOR THEN fail(r.st)
               ELSE [st |-> r.st, ok |-> TRUE, dir |-> r.dir,
                     file_str |-> path.comps[Len(path.comps)]]

\* filesys_open_inode(path, wd, &is_dir): the inode, or NO_SECTOR.
filesys_open_inode(st, path, wd) ==
    LET lp == filesys_locate_parent(st, path, wd)
    IN IF ~lp.ok THEN [st |-> lp.st, inode |-> NO_SECTOR]
       ELSE LET e == lp.st.entries[lp.dir][lp.file_str]
            IN IF ~e.in_use
               THEN [st |-> InodeClose(lp.st, lp.dir), inode |-> NO_SECTOR]
               ELSE [st |-> InodeClose(InodeOpen(lp.st, e.inode_sector), lp.dir),
                     inode |-> e.inode_sector]

\* filesys_open(path, wd, &is_dir): the sector of the file or directory that
\* the caller now has open, or NO_SECTOR.
filesys_open(st, path, wd) ==
    IF PathEmpty(path) THEN [st |-> st, file |-> NO_SECTOR]
    ELSE IF PathEndsInSlash(path)
    THEN LET r == filesys_open_dir(st, path, wd)
         IN [st |-> r.st, file |-> r.dir]
    ELSE LET r == filesys_open_inode(st, path, wd)
         IN [st |-> r.st, file |-> r.inode]

\* dir_remove(dir, name).
dir_remove(st, dir, name) ==
    LET e == st.entries[dir][name]
    IN IF name \in {PARENT_STR, SELF_STR} \/ ~e.in_use
       THEN [st |-> st, success |-> FALSE]
       ELSE LET st1 == InodeOpen(st, e.inode_sector)
                st2 == [st1 EXCEPT !.entries[dir][name] = NoEntry,
                                   !.removed[e.inode_sector] = TRUE]
            IN [st |-> InodeClose(st2, e.inode_sector), success |-> TRUE]

\* A test of the counter alone.
DirRemovableIfEmpty(st, sector) == inode_counter_get(st, sector) = 0

\* filesys_remove()'s test on a directory, made when filesys_remove() has
\* opened it: nobody else has it open and it has no entry.
DirRemovable(st, sector) ==
    st.oc[sector] <= 1 /\ inode_counter_get(st, sector) = 0

\* filesys_remove(path, dir).
filesys_remove(st, path, wd) ==
    LET lp == filesys_locate_parent(st, path, wd)
    IN IF ~lp.ok THEN [st |-> lp.st, success |-> FALSE]
       ELSE LET e == lp.st.entries[lp.dir][lp.file_str]
            IN IF ~e.in_use
               THEN [st |-> InodeClose(lp.st, lp.dir), success |-> FALSE]
               ELSE LET st1 == InodeOpen(lp.st, e.inode_sector)
                        may == ~e.is_dir \/ DirRemovable(st1, e.inode_sector)
                        r == IF may THEN dir_remove(st1, lp.dir, lp.file_str)
                             ELSE [st |-> st1, success |-> FALSE]
                    IN [st |-> InodeClose(InodeClose(r.st, e.inode_sector), lp.dir),
                        success |-> r.success]

\* filesys_create(path, initial_size, is_dir, wd): free_map_get(), then
\* dir_create() or inode_create(), then dir_add(), which fails if the name
\* is in use; on failure the sector is released.
filesys_create(st, path, is_dir, wd) ==
    LET lp == filesys_locate_parent(st, path, wd)
    IN IF ~lp.ok THEN [st |-> lp.st, success |-> FALSE]
       ELSE LET free == {x \in FsSectors : lp.st.kind[x] = "free"}
            IN IF free = {} \/ lp.st.entries[lp.dir][lp.file_str].in_use
               THEN [st |-> InodeClose(lp.st, lp.dir), success |-> FALSE]
               ELSE LET sec == Min(free)
                        own == IF is_dir
                               THEN [NoEntries EXCEPT
                                       ![SELF_STR] = [in_use |-> TRUE,
                                          inode_sector |-> sec, is_dir |-> TRUE],
                                       ![PARENT_STR] = [in_use |-> TRUE,
                                          inode_sector |-> lp.dir, is_dir |-> TRUE]]
                               ELSE NoEntries
                        st1 == [lp.st EXCEPT
                                  !.kind[sec] = IF is_dir THEN "dir" ELSE "file",
                                  !.entries[sec] = own,
                                  !.entries[lp.dir][lp.file_str] =
                                      [in_use |-> TRUE, inode_sector |-> sec,
                                       is_dir |-> is_dir]]
                    IN [st |-> InodeClose(st1, lp.dir), success |-> TRUE]

\* The operations below start only while no open_cnt has reached the cap.
FsBelowCap == \A x \in FsSectors : fs.oc[x] < MaxOpenCnt
RECURSIVE FdCountOver(_)
FdCountOver(xs) ==
    IF xs = {} THEN 0
    ELSE LET x == CHOOSE y \in xs : TRUE
         IN fs_fds[x] + FdCountOver(xs \ {x})
FdCount == FdCountOver(FsSectors)

\* sys_open(path): filesys_open() and, if it returned a file or directory,
\* process_create_fd().
sys_open(path) ==
    /\ FsBelowCap
    /\ FdCount < MaxFds
    /\ LET r == filesys_open(fs, path, fs_wd)
       IN /\ fs' = r.st
          /\ fs_fds' = IF r.file = NO_SECTOR THEN fs_fds
                       ELSE [fs_fds EXCEPT ![r.file] = @ + 1]
    /\ UNCHANGED fs_wd
    /\ FSFrame

\* sys_close(fd): dir_close() or file_close() of what the descriptor holds.
sys_close ==
    /\ \E x \in FsSectors :
          /\ fs_fds[x] > 0
          /\ fs' = InodeClose(fs, x)
          /\ fs_fds' = [fs_fds EXCEPT ![x] = @ - 1]
    /\ UNCHANGED fs_wd
    /\ FSFrame

\* sys_create(path, initial_size): filesys_create_file().
sys_create(path) ==
    /\ FsBelowCap
    /\ fs' = filesys_create(fs, path, FALSE, fs_wd).st
    /\ UNCHANGED <<fs_wd, fs_fds>>
    /\ FSFrame

\* sys_mkdir(path): filesys_create_dir().
sys_mkdir(path) ==
    /\ FsBelowCap
    /\ fs' = filesys_create(fs, path, TRUE, fs_wd).st
    /\ UNCHANGED <<fs_wd, fs_fds>>
    /\ FSFrame

\* sys_remove(path): filesys_remove().
sys_remove(path) ==
    /\ FsBelowCap
    /\ fs' = filesys_remove(fs, path, fs_wd).st
    /\ UNCHANGED <<fs_wd, fs_fds>>
    /\ FSFrame

\* sys_chdir(path): filesys_open_dir(); on success dir_close() of the old
\* working directory, and the new one takes its place.
sys_chdir(path) ==
    /\ FsBelowCap
    /\ LET r == filesys_open_dir(fs, path, fs_wd)
       IN IF r.dir = NO_SECTOR
          THEN fs' = r.st /\ UNCHANGED fs_wd
          ELSE /\ fs' = IF fs_wd = NO_SECTOR THEN r.st ELSE InodeClose(r.st, fs_wd)
               /\ fs_wd' = r.dir
    /\ UNCHANGED fs_fds
    /\ FSFrame

\* The file system after filesys_init(true): only the root directory, which
\* dir_create_root() made its own parent; nothing is open.
FsFormatted ==
    [oc |-> [x \in FsSectors |-> 0],
     removed |-> [x \in FsSectors |-> FALSE],
     kind |-> [x \in FsSectors |-> IF x = ROOT_DIR_SECTOR THEN "dir" ELSE "free"],
     entries |-> [x \in FsSectors |->
        IF x = ROOT_DIR_SECTOR
        THEN [n \in Names |->
                IF n \in {SELF_STR, PARENT_STR}
                THEN [in_use |-> TRUE, inode_sector |-> ROOT_DIR_SECTOR,
                      is_dir |-> TRUE]
                ELSE NoEntry]
        ELSE NoEntries]]

\* A process whose wd is null (the initial thread) or the root directory
\* (start_process(): cur->wd = dir_open_root()).
InitFs ==
    /\ fs_wd \in {NO_SECTOR, ROOT_DIR_SECTOR}
    /\ fs = IF fs_wd = NO_SECTOR THEN FsFormatted
            ELSE InodeOpen(FsFormatted, ROOT_DIR_SECTOR)
    /\ fs_fds = [x \in FsSectors |-> 0]

InitFsIdle ==
    /\ fs_wd = NO_SECTOR
    /\ fs = FsFormatted
    /\ fs_fds = [x \in FsSectors |-> 0]

NextFs ==
    \/ \E path \in Paths : sys_open(path)
    \/ sys_close
    \/ \E path \in Paths : sys_create(path)
    \/ \E path \in Paths : sys_mkdir(path)
    \/ \E path \in Paths : sys_remove(path)
    \/ \E path \in Paths : sys_chdir(path)

\* The references the process holds on sector x: its descriptors and its
\* working directory.
FsHeld(x) == fs_fds[x] + (IF fs_wd = x THEN 1 ELSE 0)

\* C10: between path operations every inode's open count is the number of
\* references the callers still hold, so an operation that failed has left
\* every open count as it was.
C10_OpenCntIsRefs == \A x \in FsSectors : fs.oc[x] = FsHeld(x)

\* The path "/a", and the directory it names: the process has made it with
\* mkdir("/a") and holds no descriptor on it.
PathA == [abs |-> TRUE, comps |-> <<"a">>, trail |-> FALSE]
IsDirA(d) ==
    /\ fs.entries[ROOT_DIR_SECTOR]["a"] =
            [in_use |-> TRUE, inode_sector |-> d, is_dir |-> TRUE]
    /\ fs_fds[d] = 0

\* C19 as stated: for a process that ran mkdir("/a"), chdir("/a"), created
\* a file in it and opened the file, remove("/a") fails while the file
\* exists and succeeds when the file is closed and removed.
C19_RemoveSucceedsWhenEmpty ==
    \A d \in FsSectors :
        IsDirA(d) /\ fs_wd = d =>
            (filesys_remove(fs, PathA, fs_wd).success
                <=> inode_counter_get(fs, d) = 0)

\* C19, amended: remove("/a") fails while the directory has an entry, and
\* when it has none it still fails as long as "/a" is the process's working
\* directory; it succeeds once the working directory is another one.
C19_RemoveFailsWhileCwd ==
    \A d \in FsSectors :
        IsDirA(d) =>
            (filesys_remove(fs, PathA, fs_wd).success
                <=> inode_counter_get(fs, d) = 0 /\ fs_wd # d)

\* The process is in "/a", which is empty again and which it cannot remove.
C19_Witness ==
    \E d \in FsSectors :
        /\ IsDirA(d) /\ fs_wd = d
        /\ inode_counter_get(fs, d) = 0
        /\ \A x \in FsSectors : fs_fds[x] = 0
        /\ ~filesys_remove(fs, PathA, fs_wd).success

(***************************************************************************)
(* Sector cache: filesys/fsdisk.c.  A step is the code a thread runs from  *)
(* one point where it can block or meets another thread's data to the next.*)
(* The contents of a sector are the number of the write that produced      *)
(* them, 0 for what the device held at the start.  The content lock of a   *)
(* slot is the rwlock checked above, kept here as its num_holders; the     *)
(* order in which its waiters are served is left open.  lock_mode and      *)
(* can_read_lock guard nothing another step of this model can see.         *)
(***************************************************************************)
CAFrameCall == UNCHANGED <<rwVars, inVars, fsVars, fdVars, fmth, fm_panic>>
CAFrame == CAFrameCall /\ UNCHANGED cache_calls

\* Number of slots of the cache (64 in the program).
CACHE_SECTORS == 2
\* Number of threads that use the cache.
NumCacheThreads == 2
\* Cap on the writes made through the cache.
MaxWrites == 1
\* Cap on the bits that get set in the free map.
MaxFmBits == 1
\* Cap on the calls of the cache's interface in one run.
MaxCalls == 4

Slots == 0..(CACHE_SECTORS - 1)
CacheThreads == 1..NumCacheThreads
\* The data sectors in use: one more than fits in the cache.
DataSectors == 1..(CACHE_SECTORS + 1)
\* hash_find() found nothing; no slot.
NoSlot == -1
\* Cap on pin_count, which a lost update would let grow for ever.
MaxPinCount == NumCacheThreads + 1

\* entry_init(): unpinned, free, locks free.  sector, dirty and can_read are
\* zero-initialised static memory.
EntryInit ==
    [sector |-> 0, pin_count |-> 0, evict |-> NoThread, buffer |-> 0,
     holders |-> 0, can_read |-> FALSE, accessed |-> FALSE, dirty |-> FALSE,
     free |-> TRUE]

CacheThreadIdle ==
    [pc |-> "idle", op |-> "none", sector |-> 0, entry |-> NoSlot, i |-> 0,
     saved |-> 0, got |-> "none", need |-> [x \in DataSectors |-> 0],
     need_fm |-> {}]

\* hash_find(&cache, &lookup.elem) on the hash h: the slot in it whose
\* sector is sector, or NoSlot.
hash_find(h, sector) ==
    IF \E e \in h : entries[e].sector = sector
    THEN CHOOSE e \in h : entries[e].sector = sector
    ELSE NoSlot

\* hash_insert() that inserts without looking for an equal element.
HashHoldsNever(h, sector) == FALSE

\* hash_insert(): an element equal to the new one is in the hash already.
HashHolds(h, sector) == hash_find(h, sector) # NoSlot

\* cache_try_pin_evict() that only looks at the eviction lock.
CanPinEvictLockOnly(e) == entries[e].evict = NoThread

\* cache_try_pin_evict(): pin_count == 0 and lock_try_acquire(&entry->evict),
\* with interrupts off.
CanPinEvict(e) == entries[e].pin_count = 0 /\ entries[e].evict = NoThread

\* entry_to_evict() that takes a dirty victim without cleaning it.
VictimNeedsCleanNever(e) == FALSE

\* entry_to_evict(): if (entry->dirty) the victim is cleaned first.
VictimNeedsClean(e) == entries[e].dirty

\* entry_to_evict() that keeps cache_lock while it cleans the victim.
EvictCleanLockKept(t) == t

\* entry_to_evict(): lock_release(&cache_lock) before cache_clean(entry);
\* the holder of cache_lock during the clean, as far as the evictor goes.
EvictCleanLock(t) == NoThread

\* fs_cache_flush() that never waits for a slot.
FlushWaitsNever(blocking) == FALSE

\* fs_cache_flush(): blocking uses cache_pin(), which waits for the eviction
\* lock; otherwise cache_try_pin(), which gives up.
FlushWaits(blocking) == blocking

\* What flush(blocking) called now owes the device: per sector the write that
\* is not on it yet, or 0.
FlushNeed == [x \in DataSectors |-> IF disk[x] = store[x] THEN 0 ELSE store[x]]

\* The writes that have been called: those made, and those under way.
RECURSIVE WritesMadeOver(_)
WritesMadeOver(xs) ==
    IF xs = {} THEN 0
    ELSE LET x == CHOOSE y \in xs : TRUE IN store[x] + WritesMadeOver(xs \ {x})

WritesCalled ==
    WritesMadeOver(DataSectors)
    + Cardinality({t \in CacheThreads : cath[t].op = "write"
                                        /\ cath[t].pc # "unpin"})

\* A thread calls fs_cache_read() or fs_cache_write(): cache_get() up to and
\* including lock_acquire(&cache_lock).
fs_cache_call(t) ==
    /\ cath[t].pc = "idle"
    /\ cache_calls < MaxCalls
    /\ cache_calls' = cache_calls + 1
    /\ ~cache_closed
    /\ cache_lock = NoThread
    /\ \E op \in {"read", "write"}, x \in DataSectors :
          /\ op = "write" => WritesCalled < MaxWrites
          /\ cath' = [cath EXCEPT ![t].pc = "find", ![t].op = op, ![t].sector = x]
    /\ cache_lock' = t
    /\ UNCHANGED <<entries, cache, clock_hand, cache_closed, disk, free_map_disk,
                   store, free_map, free_map_lock, free_map_dirty>>
    /\ CAFrameCall

\* cache_get(): lock_acquire(&cache_lock) after the wait for an eviction.
cache_get_lock(t) ==
    /\ cath[t].pc = "lock"
    /\ cache_lock = NoThread
    /\ cache_lock' = t
    /\ cath' = [cath EXCEPT ![t].pc = "find"]
    /\ UNCHANGED <<entries, cache, clock_hand, cache_closed, disk, free_map_disk,
                   store, free_map, free_map_lock, free_map_dirty>>
    /\ CAFrame

\* cache_get(): the top of the loop.  hash_find(); on a hit cache_try_pin() as
\* far as the load of pin_count, or the release of cache_lock if the eviction
\* lock is taken; on a miss the start of entry_to_evict().
cache_get_find(t) ==
    /\ cath[t].pc = "find"
    /\ LET e == hash_find(cache, cath[t].sector) IN
       IF e # NoSlot
       THEN IF entries[e].evict = NoThread
            THEN /\ entries[e].pin_count < MaxPinCount
                 /\ entries' = [entries EXCEPT ![e].evict = t]
                 /\ cath' = [cath EXCEPT ![t].pc = "pin_store", ![t].entry = e,
                                         ![t].saved = entries[e].pin_count]
                 /\ UNCHANGED <<cache_lock, clock_hand>>
            ELSE /\ cache_lock' = NoThread
                 /\ cath' = [cath EXCEPT ![t].pc = "wait_pin", ![t].entry = e]
                 /\ UNCHANGED <<entries, clock_hand>>
       ELSE /\ cath' = [cath EXCEPT ![t].pc = "scan", ![t].i = clock_hand]
            /\ clock_hand' = (clock_hand + 1) % CACHE_SECTORS
            /\ UNCHANGED <<entries, cache_lock>>
    /\ UNCHANGED <<cache, cache_closed, disk, free_map_disk, store, free_map,
                   free_map_lock, free_map_dirty>>
    /\ CAFrame

\* cache_try_pin(): the store of pin_count++, lock_release(&entry->evict);
\* then cache_get() leaves its loop and releases cache_lock.
cache_try_pin_store(t) ==
    /\ cath[t].pc = "pin_store"
    /\ entries' = [entries EXCEPT ![cath[t].entry].pin_count = cath[t].saved + 1,
                                  ![cath[t].entry].evict = NoThread]
    /\ cache_lock' = NoThread
    /\ cath' = [cath EXCEPT ![t].pc = "rw_acq", ![t].saved = 0]
    /\ UNCHANGED <<cache, clock_hand, cache_closed, disk, free_map_disk, store,
                   free_map, free_map_lock, free_map_dirty>>
    /\ CAFrame

\* cache_get(): cache_pin(entry) on a slot that was being evicted, up to the
\* load of pin_count.
cache_get_wait_pin(t) ==
    /\ cath[t].pc = "wait_pin"
    /\ entries[cath[t].entry].evict = NoThread
    /\ entries[cath[t].entry].pin_count < MaxPinCount
    /\ entries' = [entries EXCEPT ![cath[t].entry].evict = t]
    /\ cath' = [cath EXCEPT ![t].pc = "wait_store",
                            ![t].saved = entries[cath[t].entry].pin_count]
    /\ UNCHANGED <<cache, cache_lock, clock_hand, cache_closed, disk,
                   free_map_disk, store, free_map, free_map_lock, free_map_dirty>>
    /\ CAFrame

\* cache_pin(): the store of pin_count++ and lock_release(&entry->evict).
cache_get_wait_store(t) ==
    /\ cath[t].pc = "wait_store"
    /\ entries' = [entries EXCEPT ![cath[t].entry].pin_count = cath[t].saved + 1,
                                  ![cath[t].entry].evict = NoThread]
    /\ cath' = [cath EXCEPT ![t].pc = "wait_unpin", ![t].saved = 0]
    /\ UNCHANGED <<cache, cache_lock, clock_hand, cache_closed, disk,
                   free_map_disk, store, free_map, free_map_lock, free_map_dirty>>
    /\ CAFrame

\* cache_get(): cache_unpin(entry) after the wait; entry = NULL; continue.
cache_get_wait_unpin(t) ==
    /\ cath[t].pc = "wait_unpin"
    /\ entries' = [entries EXCEPT ![cath[t].entry].pin_count = @ - 1]
    /\ cath' = [cath EXCEPT ![t].pc = "lock", ![t].entry = NoSlot]
    /\ UNCHANGED <<cache, cache_lock, clock_hand, cache_closed, disk,
                   free_map_disk, store, free_map, free_map_lock, free_map_dirty>>
    /\ CAFrame

\* cache_get_free() after entry_to_evict() returned slot e pinned to evict,
\* then cache_set(e, sector) and the end of cache_get()'s loop, all under
\* cache_lock: hash_delete() unless free; the slot takes the sector; if
\* hash_insert() finds the sector in the hash the slot stays free and the
\* loop goes round, otherwise the slot is in use, pinned once, and cache_lock
\* is released.
cache_set(t, e) ==
    LET h == cache \ {e} IN
    IF HashHolds(h, cath[t].sector)
    THEN /\ entries' = [entries EXCEPT ![e].sector = cath[t].sector,
                                       ![e].accessed = FALSE,
                                       ![e].can_read = FALSE,
                                       ![e].pin_count = 0,
                                       ![e].free = TRUE,
                                       ![e].evict = NoThread]
         /\ cache' = h
         /\ cache_lock' = t
         /\ cath' = [cath EXCEPT ![t].pc = "find", ![t].entry = NoSlot,
                                 ![t].i = 0]
    ELSE /\ entries' = [entries EXCEPT ![e].sector = cath[t].sector,
                                       ![e].accessed = FALSE,
                                       ![e].can_read = FALSE,
                                       ![e].pin_count = 1,
                                       ![e].free = FALSE,
                                       ![e].evict = NoThread]
         /\ cache' = h \cup {e}
         /\ cache_lock' = NoThread
         /\ cath' = [cath EXCEPT ![t].pc = "rw_acq", ![t].entry = e, ![t].i = 0]

\* entry_to_evict(): one round of the loop on slot i.
entry_to_evict(t) ==
    /\ cath[t].pc = "scan"
    /\ LET e == cath[t].i IN
       IF ~CanPinEvict(e)
       THEN /\ cath' = [cath EXCEPT ![t].i = (e + 1) % CACHE_SECTORS]
            /\ UNCHANGED <<entries, cache, cache_lock>>
       ELSE IF entries[e].free
       THEN cache_set(t, e)
       ELSE IF entries[e].accessed
       THEN /\ entries' = [entries EXCEPT ![e].accessed = FALSE]
            /\ cath' = [cath EXCEPT ![t].i = (e + 1) % CACHE_SECTORS]
            /\ UNCHANGED <<cache, cache_lock>>
       ELSE IF VictimNeedsClean(e)
       THEN /\ entries' = [entries EXCEPT ![e].evict = t]
            /\ cache_lock' = EvictCleanLock(t)
            /\ cath' = [cath EXCEPT ![t].pc = "evict_clean", ![t].entry = e]
            /\ UNCHANGED cache
       ELSE cache_set(t, e)
    /\ UNCHANGED <<clock_hand, cache_closed, disk, free_map_disk, store, free_map,
                   free_map_lock, free_map_dirty>>
    /\ CAFrame

\* cache_clean(entry) on slot e: under the content lock as a reader, a dirty
\* slot is written to the device and marked clean.
cache_clean(e) ==
    /\ entries[e].holders >= 0
    /\ IF entries[e].dirty
       THEN /\ disk' = [disk EXCEPT ![entries[e].sector] = entries[e].buffer]
            /\ entries' = [entries EXCEPT ![e].dirty = FALSE]
       ELSE UNCHANGED <<disk, entries>>

\* entry_to_evict(): cache_clean(entry) of the dirty victim, without
\* cache_lock.
entry_to_evict_clean(t) ==
    /\ cath[t].pc = "evict_clean"
    /\ cache_clean(cath[t].entry)
    /\ cath' = [cath EXCEPT ![t].pc = "evict_relock"]
    /\ UNCHANGED <<cache, cache_lock, clock_hand, cache_closed, free_map_disk,
                   store, free_map, free_map_lock, free_map_dirty>>
    /\ CAFrame

\* entry_to_evict(): lock_acquire(&cache_lock) after the clean, and on from
\* its return.
entry_to_evict_relock(t) ==
    /\ cath[t].pc = "evict_relock"
    /\ cache_lock = NoThread
    /\ cache_set(t, cath[t].entry)
    /\ UNCHANGED <<clock_hand, cache_closed, disk, free_map_disk, store, free_map,
                   free_map_lock, free_map_dirty>>
    /\ CAFrame

\* cache_get(): rw_write_acquire() or rw_read_acquire() of the content lock.
cache_get_rw_acquire(t) ==
    /\ cath[t].pc = "rw_acq"
    /\ LET e == cath[t].entry IN
       IF cath[t].op = "write"
       THEN /\ entries[e].holders = 0
            /\ entries' = [entries EXCEPT ![e].holders = -1]
       ELSE /\ entries[e].holders >= 0
            /\ entries' = [entries EXCEPT ![e].holders = @ + 1]
    /\ cath' = [cath EXCEPT ![t].pc = "body"]
    /\ UNCHANGED <<cache, cache_lock, clock_hand, cache_closed, disk,
                   free_map_disk, store, free_map, free_map_lock, free_map_dirty>>
    /\ CAFrame

\* fs_cache_write() from the return of cache_get() to the release of the
\* content lock: the buffer takes the new contents.
fs_cache_write(t) ==
    /\ cath[t].pc = "body"
    /\ cath[t].op = "write"
    /\ LET e == cath[t].entry
           x == cath[t].sector
       IN /\ entries' = [entries EXCEPT ![e].accessed = TRUE,
                                        ![e].dirty = TRUE,
                                        ![e].buffer = store[x] + 1,
                                        ![e].can_read = TRUE,
                                        ![e].holders = 0]
          /\ store' = [store EXCEPT ![x] = @ + 1]
    /\ cath' = [cath EXCEPT ![t].pc = "unpin"]
    /\ UNCHANGED <<cache, cache_lock, clock_hand, cache_closed, disk,
                   free_map_disk, free_map, free_map_lock, free_map_dirty>>
    /\ CAFrame

\* fs_cache_read() from the return of cache_get() to the release of the
\* content lock: cache_ensure_can_read() loads the slot's sector from the
\* device unless can_read, and the buffer is copied out.  got notes whether
\* the contents are the last written, and if so whether they came from the
\* buffer or from the device, and from the device whether they are the first
\* contents or written ones.
fs_cache_read(t) ==
    /\ cath[t].pc = "body"
    /\ cath[t].op = "read"
    /\ LET e == cath[t].entry
           b == IF entries[e].can_read THEN entries[e].buffer
                ELSE disk[entries[e].sector]
       IN /\ entries' = [entries EXCEPT ![e].buffer = b,
                                        ![e].can_read = TRUE,
                                        ![e].accessed = TRUE,
                                        ![e].holders = @ - 1]
          /\ cath' = [cath EXCEPT ![t].pc = "unpin",
                                  ![t].got =
                                      IF b # store[cath[t].sector] THEN "stale"
                                      ELSE IF entries[e].can_read THEN "cached"
                                      ELSE IF b = 0 THEN "loaded"
                                      ELSE "loaded_written"]
    /\ UNCHANGED <<cache, cache_lock, clock_hand, cache_closed, disk,
                   free_map_disk, store, free_map, free_map_lock, free_map_dirty>>
    /\ CAFrame

\* cache_release(): cache_unpin(entry), and the return to the caller.
cache_release(t) ==
    /\ cath[t].pc = "unpin"
    /\ entries' = [entries EXCEPT ![cath[t].entry].pin_count = @ - 1]
    /\ cath' = [cath EXCEPT ![t] = CacheThreadIdle]
    /\ UNCHANGED <<cache, cache_lock, clock_hand, cache_closed, disk,
                   free_map_disk, store, free_map, free_map_lock, free_map_dirty>>
    /\ CAFrame

Blocking(t) == cath[t].op \in {"flush", "destroy"}

\* A thread calls fs_cache_flush(true), fs_cache_flush(false) as
\* write_behind_helper() does, or fs_cache_destroy(), which sets
\* free_map_dirty first.  What the call owes the device is noted.
fs_cache_flush_call(t) ==
    /\ cath[t].pc = "idle"
    /\ cache_calls < MaxCalls
    /\ cache_calls' = cache_calls + 1
    /\ ~cache_closed
    /\ \E op \in {"flush", "write_behind", "destroy"} :
          /\ cath' = [cath EXCEPT ![t].pc = "fl_pin", ![t].op = op, ![t].i = 0,
                                  ![t].need = FlushNeed,
                                  ![t].need_fm = free_map.bits]
          /\ free_map_dirty' = IF op = "destroy" THEN TRUE ELSE free_map_dirty
    /\ UNCHANGED <<entries, cache, cache_lock, clock_hand, cache_closed, disk,
                   free_map_disk, store, free_map, free_map_lock>>
    /\ CAFrameCall

\* fs_cache_flush(): the end of the round on slot i.
FlushNext(t) ==
    IF cath[t].i + 1 < CACHE_SECTORS
    THEN [cath EXCEPT ![t].pc = "fl_pin", ![t].i = @ + 1, ![t].saved = 0]
    ELSE [cath EXCEPT ![t].pc = "fl_fm", ![t].i = 0, ![t].saved = 0]

\* fs_cache_flush(): cache_pin() or cache_try_pin() of slot i up to the load
\* of pin_count; a try that fails skips the slot.
fs_cache_flush_pin(t) ==
    /\ cath[t].pc = "fl_pin"
    /\ LET e == cath[t].i IN
       IF entries[e].evict = NoThread
       THEN /\ entries[e].pin_count < MaxPinCount
            /\ entries' = [entries EXCEPT ![e].evict = t]
            /\ cath' = [cath EXCEPT ![t].pc = "fl_store",
                                    ![t].saved = entries[e].pin_count]
       ELSE /\ ~FlushWaits(Blocking(t))
            /\ cath' = FlushNext(t)
            /\ UNCHANGED entries
    /\ UNCHANGED <<cache, cache_lock, clock_hand, cache_closed, disk,
                   free_map_disk, store, free_map, free_map_lock, free_map_dirty>>
    /\ CAFrame

\* cache_pin(), cache_try_pin(): the store of pin_count++ and
\* lock_release(&entry->evict).
fs_cache_flush_pin_store(t) ==
    /\ cath[t].pc = "fl_store"
    /\ entries' = [entries EXCEPT ![cath[t].i].pin_count = cath[t].saved + 1,
                                  ![cath[t].i].evict = NoThread]
    /\ cath' = [cath EXCEPT ![t].pc = "fl_clean", ![t].saved = 0]
    /\ UNCHANGED <<cache, cache_lock, clock_hand, cache_closed, disk,
                   free_map_disk, store, free_map, free_map_lock, free_map_dirty>>
    /\ CAFrame

\* fs_cache_flush(): cache_clean(entry).
fs_cache_flush_clean(t) ==
    /\ cath[t].pc = "fl_clean"
    /\ cache_clean(cath[t].i)
    /\ cath' = [cath EXCEPT ![t].pc = "fl_unpin"]
    /\ UNCHANGED <<cache, cache_lock, clock_hand, cache_closed, free_map_disk,
                   store, free_map, free_map_lock, free_map_dirty>>
    /\ CAFrame

\* fs_cache_flush(): cache_unpin(entry).
fs_cache_flush_unpin(t) ==
    /\ cath[t].pc = "fl_unpin"
    /\ entries' = [entries EXCEPT ![cath[t].i].pin_count = @ - 1]
    /\ cath' = FlushNext(t)
    /\ UNCHANGED <<cache, cache_lock, clock_hand, cache_closed, disk,
                   free_map_disk, store, free_map, free_map_lock, free_map_dirty>>
    /\ CAFrame

\* fs_cache_flush(): if (free_map_dirty), read without the lock.
fs_cache_flush_free_map(t) ==
    /\ cath[t].pc = "fl_fm"
    /\ cath' = [cath EXCEPT ![t].pc = IF free_map_dirty THEN "fl_fm_write"
                                      ELSE "fl_done"]
    /\ UNCHANGED <<entries, cache, cache_lock, clock_hand, cache_closed, disk,
                   free_map_disk, store, free_map, free_map_lock, free_map_dirty>>
    /\ CAFrame

\* fs_cache_flush(): under free_map_lock the free map's sectors are written
\* and free_map_dirty is cleared.
fs_cache_flush_free_map_write(t) ==
    /\ cath[t].pc = "fl_fm_write"
    /\ free_map_lock = NoThread
    /\ free_map_disk' = free_map.bits
    /\ free_map_dirty' = FALSE
    /\ cath' = [cath EXCEPT ![t].pc = "fl_done"]
    /\ UNCHANGED <<entries, cache, cache_lock, clock_hand, cache_closed, disk,
                   store, free_map, free_map_lock>>
    /\ CAFrame

\* fs_cache_flush() returns; fs_cache_destroy() sets cache_closed.
fs_cache_flush_return(t) ==
    /\ cath[t].pc = "fl_done"
    /\ cache_closed' = (cache_closed \/ cath[t].op = "destroy")
    /\ cath' = [cath EXCEPT ![t] = CacheThreadIdle]
    /\ UNCHANGED <<entries, cache, cache_lock, clock_hand, disk, free_map_disk,
                   store, free_map, free_map_lock, free_map_dirty>>
    /\ CAFrame

\* A user of the free map: fs_cache_get_free_map_buf().
cache_free_map_get_buf(t) ==
    /\ cath[t].pc = "idle"
    /\ cache_calls < MaxCalls
    /\ cache_calls' = cache_calls + 1
    /\ ~cache_closed
    /\ free_map_lock = NoThread
    /\ Cardinality(free_map.bits) < MaxFmBits
    /\ free_map_lock' = t
    /\ cath' = [cath EXCEPT ![t].pc = "fm_release", ![t].op = "free_map"]
    /\ UNCHANGED <<entries, cache, cache_lock, clock_hand, cache_closed, disk,
                   free_map_disk, store, free_map, free_map_dirty>>
    /\ CAFrameCall

\* The user sets the lowest clear bit, as free_map_get() does, and calls
\* fs_cache_release(free_map_buffer): free_map_dirty = true, lock_release().
cache_free_map_release(t) ==
    /\ cath[t].pc = "fm_release"
    /\ free_map' = bitmap_mark(free_map, bitmap_lowest(free_map, FALSE))
    /\ free_map_dirty' = TRUE
    /\ free_map_lock' = NoThread
    /\ cath' = [cath EXCEPT ![t] = CacheThreadIdle]
    /\ UNCHANGED <<entries, cache, cache_lock, clock_hand, cache_closed, disk,
                   free_map_disk, store>>
    /\ CAFrame

\* read_ahead_helper(): read_ahead_dequeue() gives the next request, and
\* the worker tests cache_closed; it leaves its loop if the cache is closed.
read_ahead_helper(t) ==
    /\ cath[t].pc = "idle"
    /\ cache_calls < MaxCalls
    /\ cache_calls' = cache_calls + 1
    /\ \E x \in DataSectors :
          cath' = [cath EXCEPT ![t].pc = IF cache_closed THEN "ra_exit"
                                         ELSE "ra_get",
                               ![t].op = "read_ahead", ![t].sector = x]
    /\ UNCHANGED <<entries, cache, cache_lock, clock_hand, cache_closed, disk,
                   free_map_disk, store, free_map, free_map_lock, free_map_dirty>>
    /\ CAFrameCall

\* read_ahead_helper(): cache_get(sector, LOCK_READ) as far as
\* ASSERT(!cache_closed); the worker goes on as a reader of the sector.
read_ahead_cache_get(t) ==
    /\ cath[t].pc = "ra_get"
    /\ cath' = [cath EXCEPT ![t].pc = IF cache_closed THEN "assert_closed"
                                      ELSE "lock",
                            ![t].op = "read"]
    /\ UNCHANGED <<entries, cache, cache_lock, clock_hand, cache_closed, disk,
                   free_map_disk, store, free_map, free_map_lock, free_map_dirty>>
    /\ CAFrame

\* fs_cache_init(): every slot initialised, the hash empty; the device holds
\* its first contents, and the free map read from it is clean.
InitCache ==
    /\ entries = [e \in Slots |-> EntryInit]
    /\ cache = {}
    /\ cache_lock = NoThread
    /\ clock_hand = 0
    /\ cache_closed = FALSE
    /\ disk = [x \in DataSectors |-> 0]
    /\ free_map_disk = {}
    /\ store = [x \in DataSectors |-> 0]
    /\ cath = [t \in CacheThreads |-> CacheThreadIdle]
    /\ cache_calls = 0

NextCache ==
    \/ \E t \in CacheThreads : fs_cache_call(t)
    \/ \E t \in CacheThreads : cache_get_lock(t)
    \/ \E t \in CacheThreads : cache_get_find(t)
    \/ \E t \in CacheThreads : cache_try_pin_store(t)
    \/ \E t \in CacheThreads : cache_get_wait_pin(t)
    \/ \E t \in CacheThreads : cache_get_wait_store(t)
    \/ \E t \in CacheThreads : cache_get_wait_unpin(t)
    \/ \E t \in CacheThreads : entry_to_evict(t)
    \/ \E t \in CacheThreads : entry_to_evict_clean(t)
    \/ \E t \in CacheThreads : entry_to_evict_relock(t)
    \/ \E t \in CacheThreads : cache_get_rw_acquire(t)
    \/ \E t \in CacheThreads : fs_cache_write(t)
    \/ \E t \in CacheThreads : fs_cache_read(t)
    \/ \E t \in CacheThreads : cache_release(t)
    \/ \E t \in CacheThreads : fs_cache_flush_call(t)
    \/ \E t \in CacheThreads : fs_cache_flush_pin(t)
    \/ \E t \in CacheThreads : fs_cache_flush_pin_store(t)
    \/ \E t \in CacheThreads : fs_cache_flush_clean(t)
    \/ \E t \in CacheThreads : fs_cache_flush_unpin(t)
    \/ \E t \in CacheThreads : fs_cache_flush_free_map(t)
    \/ \E t \in CacheThreads : fs_cache_flush_free_map_write(t)
    \/ \E t \in CacheThreads : fs_cache_flush_return(t)
    \/ \E t \in CacheThreads : cache_free_map_get_buf(t)
    \/ \E t \in CacheThreads : cache_free_map_release(t)

\* The read-ahead worker, the write-behind worker and shutdown: requests to
\* read ahead, flushes and fs_cache_destroy(), with no other user of the
\* cache.
NextWorkers ==
    \/ \E t \in CacheThreads : read_ahead_helper(t)
    \/ \E t \in CacheThreads : read_ahead_cache_get(t)
    \/ \E t \in CacheThreads : cache_get_lock(t)
    \/ \E t \in CacheThreads : cache_get_find(t)
    \/ \E t \in CacheThreads : cache_try_pin_store(t)
    \/ \E t \in CacheThreads : cache_get_wait_pin(t)
    \/ \E t \in CacheThreads : cache_get_wait_store(t)
    \/ \E t \in CacheThreads : cache_get_wait_unpin(t)
    \/ \E t \in CacheThreads : entry_to_evict(t)
    \/ \E t \in CacheThreads : cache_get_rw_acquire(t)
    \/ \E t \in CacheThreads : fs_cache_read(t)
    \/ \E t \in CacheThreads : cache_release(t)
    \/ \E t \in CacheThreads : fs_cache_flush_call(t)
    \/ \E t \in CacheThreads : fs_cache_flush_pin(t)
    \/ \E t \in CacheThreads : fs_cache_flush_pin_store(t)
    \/ \E t \in CacheThreads : fs_cache_flush_clean(t)
    \/ \E t \in CacheThreads : fs_cache_flush_unpin(t)
    \/ \E t \in CacheThreads : fs_cache_flush_free_map(t)
    \/ \E t \in CacheThreads : fs_cache_flush_free_map_write(t)
    \/ \E t \in CacheThreads : fs_cache_flush_return(t)

\* What the cache and the device together hold for sector x: the buffer of
\* the slot that has the sector once it can be read, else the device's copy.
SectorStore(x) ==
    LET e == hash_find(cache, x)
    IN IF e # NoSlot /\ entries[e].can_read THEN entries[e].buffer ELSE disk[x]

\* C1: a cache read of a sector returns what the last cache write of that
\* sector wrote (the first contents if there was none), under every
\* interleaving and also after the slot was evicted and the sector loaded
\* again; at every moment the cache and the device together hold, for each
\* sector, the last contents written.
C1_ReadSeesLastWrite ==
    /\ \A t \in CacheThreads : cath[t].got # "stale"
    /\ \A x \in DataSectors : SectorStore(x) = store[x]

\* A read that loaded from the device a sector written through the cache
\* before: its slot had been evicted, and it got the written contents.
C1_Witness ==
    \E t \in CacheThreads :
        /\ cath[t].pc = "unpin"
        /\ cath[t].got = "loaded_written"

\* C2: when fs_cache_flush(true) or fs_cache_destroy() is about to return,
\* every sector written through the cache before the call holds on the device
\* that write or a later one, and every bit set in the free map before the
\* call is set in the device's copy.
C2_FlushReachesDevice ==
    \A t \in CacheThreads :
        (cath[t].pc = "fl_done" /\ Blocking(t)) =>
            /\ \A x \in DataSectors : disk[x] >= cath[t].need[x]
            /\ cath[t].need_fm \subseteq free_map_disk

\* A blocking flush that owed the device a sector and a free-map bit is about
\* to return while the other thread is inside the cache.
C2_Witness ==
    \E t \in CacheThreads, u \in CacheThreads :
        /\ cath[t].pc = "fl_done" /\ cath[t].op = "flush"
        /\ \E x \in DataSectors : cath[t].need[x] > 0
        /\ cath[t].need_fm # {}
        /\ cath[u].pc \notin {"idle", "fl_done"}

\* C3: no two slots in use hold the same sector.
C3_OneSlotPerSector ==
    \A e1 \in Slots, e2 \in Slots :
        (e1 # e2 /\ ~entries[e1].free /\ ~entries[e2].free) =>
            entries[e1].sector # entries[e2].sector

\* Two threads missed on one sector: one installed it, and the slot the other
\* had taken for it was turned down by cache_set() and stays free.
C3_Witness ==
    \E e1 \in Slots, e2 \in Slots :
        /\ e1 # e2
        /\ entries[e1].free /\ ~entries[e2].free
        /\ entries[e1].sector \in DataSectors
        /\ entries[e1].sector = entries[e2].sector

\* The threads that hold a user pin on slot e.
Pinners(e) ==
    {t \in CacheThreads :
        \/ cath[t].pc \in {"rw_acq", "body", "unpin", "wait_unpin"}
           /\ cath[t].entry = e
        \/ cath[t].pc \in {"fl_clean", "fl_unpin"} /\ cath[t].i = e}

\* C4: no step frees a slot, takes it out of the hash or gives it another
\* sector while its pin count is above 0, a thread has it pinned, or its
\* content lock is held.
C4_PinnedSlotStays ==
    [][\A e \in Slots :
          (entries[e].pin_count > 0 \/ Pinners(e) # {} \/ entries[e].holders # 0)
          => /\ entries'[e].free = entries[e].free
             /\ entries'[e].sector = entries[e].sector
             /\ (e \in cache') = (e \in cache)]_vars

\* The evictor's scan stands at a slot in use that the clock would let it
\* take, and another thread has the slot pinned.
C4_Witness ==
    \E t \in CacheThreads :
        /\ cath[t].pc = "scan"
        /\ ~entries[cath[t].i].free
        /\ ~entries[cath[t].i].accessed
        /\ entries[cath[t].i].evict = NoThread
        /\ Pinners(cath[t].i) # {}

\* C31: a flush of the write-behind worker (fs_cache_flush(false)) never
\* waits for a slot: when it has pinned a slot and stands before
\* cache_clean(), no writer holds the slot's content lock, so the clean can
\* go on at once.
C31_NonBlockingFlushNeverWaits ==
    \A t \in CacheThreads :
        (cath[t].op = "write_behind" /\ cath[t].pc = "fl_clean") =>
            entries[cath[t].i].holders >= 0

\* C37: a thread that is about to write a sector to the device
\* (cache_clean() of a victim or in a flush, the free map's sectors) or to
\* load one (cache_ensure_can_read()) does not hold cache_lock, and the
\* evictor that writes back its dirty victim holds the victim's eviction
\* lock.
C37_NoDeviceIOUnderCacheLock ==
    \A t \in CacheThreads :
        /\ cath[t].pc \in {"evict_clean", "fl_clean", "fl_fm_write", "body"} =>
                cache_lock # t
        /\ cath[t].pc = "evict_clean" =>
                /\ entries[cath[t].entry].evict = t
                /\ entries[cath[t].entry].dirty

\* An evictor is about to write back its dirty victim while the other
\* thread holds cache_lock.
C37_Witness ==
    \E t \in CacheThreads, u \in CacheThreads :
        /\ t # u
        /\ cath[t].pc = "evict_clean"
        /\ cache_lock = u

\* C39: while no thread is inside cache_pin() or cache_try_pin() on a slot
\* (its eviction lock is free), the slot's pin count is the number of
\* threads that have pinned the slot and not yet unpinned it.
C39_PinCountExact ==
    \A e \in Slots :
        entries[e].evict = NoThread =>
            entries[e].pin_count = Cardinality(Pinners(e))

\* C38: the read-ahead worker, which tests cache_closed before each
\* request, never fails ASSERT(!cache_closed) in cache_get(), whatever the
\* interleaving with fs_cache_destroy().
C38_WorkerNeverUsesClosedCache ==
    \A t \in CacheThreads : cath[t].pc # "assert_closed"

(***************************************************************************)
(* Inode data: filesys/inode.c.  One file of a device that it has to       *)
(* itself: its on-disk inode with the direct and indirect index, its data  *)
(* sectors, its in-core inode and its directory entry.  The geometry is    *)
(* scaled: a sector index takes one byte and the header none, so that an   *)
(* inode has FileSectorSize index entries, as in the source it has         *)
(* BLOCK_SECTOR_SIZE / sizeof(fs_sector_t) less the header.  One process   *)
(* uses the file, so every call runs to its end before the next.           *)
(***************************************************************************)
FileFrame == UNCHANGED <<rwVars, fmVars, inVars, fsVars, caVars, sdir, cdir,
                         vm, cfile, mm>>

\* BLOCK_SECTOR_SIZE of the scaled device: the bytes of a sector, and the
\* index entries of a sector.
FileSectorSize == 2
\* Indirect nodes of an inode.
NUM_INDIRECT == 1
\* Sectors of the device.
FileDiskSize == 4
\* Largest size of one read or write, and largest initial size of a file.
MaxSize == 2
\* Most handles open on the file at once.
MaxFileOpens == 2
\* Calls the process makes on the file.
MaxFileCalls == 5

\* Directly-indexed sectors of an inode: what the indirect entries leave.
NUM_DIRECT == FileSectorSize - NUM_INDIRECT
\* The number of children in an indirect node.
INDIRECT_NUM_DIRECT == FileSectorSize

FileSectors == 0..(FileDiskSize - 1)
\* The bytes the index of an inode reaches.
FileCapacity ==
    (NUM_DIRECT + NUM_INDIRECT * INDIRECT_NUM_DIRECT) * FileSectorSize
FileOffsets == 0..(FileCapacity + 1)
\* What a load past the end of data->indirect[] can yield: any sector index,
\* NO_SECTOR, or a value that is no sector of the device.
WildValues == {NO_SECTOR} \cup 0..FileDiskSize
\* The loads that a call at these offsets can make: within the arrays the
\* value loaded is the index's own.
WildAt(size, offset) ==
    IF offset + size + FileSectorSize > FileCapacity
    THEN WildValues ELSE {NO_SECTOR}

ZeroSector == [b \in 0..(FileSectorSize - 1) |-> 0]
\* A caller's buffer of n bytes, none of them zero.
Buffer(n) == [k \in 1..n |-> 1 + (k % 2)]

\* The file before filesys_create() and after its inode is freed.
NoFile(free) ==
    [exists |-> FALSE, linked |-> FALSE, open_cnt |-> 0, removed |-> FALSE,
     sector |-> NO_SECTOR, length |-> 0,
     direct |-> [i \in 0..(NUM_DIRECT - 1) |-> NO_SECTOR],
     indirect |-> [i \in 0..(NUM_INDIRECT - 1) |-> NO_SECTOR],
     sub |-> [s \in FileSectors |->
                 [j \in 0..(INDIRECT_NUM_DIRECT - 1) |-> NO_SECTOR]],
     data |-> [s \in FileSectors |-> ZeroSector],
     free |-> free, state |-> "ok", length0 |-> 0, wrote |-> {},
     last |-> [op |-> "none"], calls |-> 0]

\* free_map_get() followed by the store of the sector into the index and,
\* for a data sector, by fs_cache_write(ret, NULL).
\* byte_to_sector(): the inode after the call, the sector returned (-1 for
\* none) and how the call ended: "ok", "panic" (an ASSERT failed), "ub"
\* (stores through an index past the arrays) or "held" (the inode's sector
\* was never released and stays write-locked by the caller).
byte_to_sector(f, pos, create, wild) ==
    LET sec_off == pos \div FileSectorSize
        subnode_i == (sec_off - NUM_DIRECT) \div INDIRECT_NUM_DIRECT
        subnode_j == (sec_off - NUM_DIRECT) % INDIRECT_NUM_DIRECT
        sec == Min(f.free)
        Ret(g, ret, st) == [f |-> g, ret |-> ret, st |-> st]
    IN  IF sec_off < NUM_DIRECT THEN
            IF create /\ f.direct[sec_off] = NO_SECTOR /\ f.free # {}
            THEN Ret([f EXCEPT !.direct[sec_off] = sec, !.free = @ \ {sec},
                               !.data[sec] = ZeroSector], sec, "ok")
            ELSE Ret(f, f.direct[sec_off], "ok")
        ELSE IF subnode_i >= NUM_INDIRECT THEN
            \* data->indirect[subnode_i] is past the end of the array
            IF wild = NO_SECTOR /\ ~create THEN Ret(f, -1, "ok")
            ELSE IF wild >= FileDiskSize THEN Ret(f, -1, "panic")
            ELSE IF create THEN Ret(f, -1, "ub")
            ELSE Ret(f, wild, "ok")
        ELSE IF f.indirect[subnode_i] = NO_SECTOR /\ ~create THEN
            Ret(f, -1, "ok")
        ELSE IF f.indirect[subnode_i] = NO_SECTOR /\ f.free = {} THEN
            \* free_map_get() failed: data is not released
            Ret(f, -1, "held")
        ELSE
            LET g == IF f.indirect[subnode_i] = NO_SECTOR
                     THEN [f EXCEPT !.indirect[subnode_i] = sec,
                                    !.free = @ \ {sec},
                                    !.sub[sec] = [j \in DOMAIN @ |-> NO_SECTOR]]
                     ELSE f
                subnode == g.indirect[subnode_i]
                sec2 == Min(g.free)
            IN  IF create /\ g.sub[subnode][subnode_j] = NO_SECTOR
                   /\ g.free # {}
                THEN Ret([g EXCEPT !.sub[subnode][subnode_j] = sec2,
                                   !.free = @ \ {sec2},
                                   !.data[sec2] = ZeroSector], sec2, "ok")
                ELSE Ret(g, g.sub[subnode][subnode_j], "ok")

\* The loop of inode_write_at(): the inode, the offset reached, the bytes
\* written and how the loop ended.
RECURSIVE inode_write_loop(_, _, _, _, _)
inode_write_loop(f, size, offset, bytes_written, wild) ==
    LET r == byte_to_sector(f, offset, TRUE, wild)
        sector_ofs == offset % FileSectorSize
        chunk_size == Min({size, FileSectorSize - sector_ofs})
        buffer == Buffer(bytes_written + size)
    IN  IF size <= 0 THEN
            [f |-> f, offset |-> offset, ret |-> bytes_written, st |-> "ok"]
        ELSE IF r.st # "ok" \/ r.ret = -1 THEN
            [f |-> r.f, offset |-> offset, ret |-> bytes_written, st |-> r.st]
        ELSE inode_write_loop(
                [r.f EXCEPT !.data[r.ret] =
                    [b \in DOMAIN @ |->
                        IF b >= sector_ofs /\ b < sector_ofs + chunk_size
                        THEN buffer[bytes_written + (b - sector_ofs) + 1]
                        ELSE @[b]]],
                size - chunk_size, offset + chunk_size,
                bytes_written + chunk_size, wild)

\* inode_write_at() without the update of header.length.
inode_write_at_same_length(f, size, offset, wild) ==
    LET w == inode_write_loop(f, size, offset, 0, wild)
    IN  [f |-> w.f, ret |-> w.ret, st |-> w.st]

\* inode_write_at(): the loop, then the update of header.length under the
\* inode sector's write lock, which never comes when the caller still
\* holds that lock from byte_to_sector().
inode_write_at(f, size, offset, wild) ==
    LET w == inode_write_loop(f, size, offset, 0, wild)
    IN  IF w.st = "held" THEN [f |-> w.f, ret |-> w.ret, st |-> "hung"]
        ELSE IF w.st # "ok" THEN [f |-> w.f, ret |-> w.ret, st |-> w.st]
        ELSE [f |-> [w.f EXCEPT !.length =
                        IF @ < w.offset THEN w.offset ELSE @],
              ret |-> w.ret, st |-> "ok"]

\* inode_read_at(): the bytes read (in out), their number and how it ended.
RECURSIVE inode_read_at(_, _, _, _, _)
inode_read_at(f, out, size, offset, wild) ==
    LET inode_left == f.length - offset
        r == byte_to_sector(f, offset, FALSE, wild)
        ahead == IF inode_left > FileSectorSize
                 THEN byte_to_sector(f, offset + FileSectorSize, FALSE,
                                     wild).st
                 ELSE "ok"
        sector_ofs == offset % FileSectorSize
        chunk_size ==
            Min({size, inode_left, FileSectorSize - sector_ofs})
        \* fs_cache_get(-1) and fs_cache_read(-1) give a sector of zeros
        sec == IF r.ret = -1 THEN ZeroSector ELSE f.data[r.ret]
    IN  IF size <= 0 THEN [out |-> out, ret |-> Len(out), st |-> "ok"]
        ELSE IF r.st # "ok" THEN [out |-> out, ret |-> Len(out), st |-> r.st]
        ELSE IF ahead # "ok" THEN [out |-> out, ret |-> Len(out), st |-> ahead]
        ELSE IF chunk_size <= 0 THEN
            [out |-> out, ret |-> Len(out), st |-> "ok"]
        ELSE inode_read_at(f,
                out \o [k \in 1..chunk_size |-> sec[sector_ofs + k - 1]],
                size - chunk_size, offset + chunk_size, wild)

\* The entries of an indirect node that inode_close() walks.
IndirectWalked == 0..(NUM_DIRECT - 1)

\* inode_close() of a handle: the last close of a removed inode releases
\* its sectors and frees the in-core inode.
file_inode_close(f) ==
    LET held == {f.direct[i] : i \in 0..(NUM_DIRECT - 1)}
            \cup {f.indirect[i] : i \in 0..(NUM_INDIRECT - 1)}
            \cup {f.sub[f.indirect[i]][j] :
                    i \in {k \in 0..(NUM_INDIRECT - 1) :
                              f.indirect[k] # NO_SECTOR},
                    j \in IndirectWalked}
            \cup {f.sector}
    IN  IF f.open_cnt > 1 \/ ~f.removed
        THEN [f EXCEPT !.open_cnt = @ - 1]
        ELSE NoFile(f.free \cup (held \ {NO_SECTOR}))

\* filesys_create(name, initial_size) of a file, the name being free.
file_create(initial_size) ==
    /\ ~file.exists /\ file.state = "ok" /\ file.free # {}
    /\ file.calls < MaxFileCalls
    /\ file' = [NoFile(file.free \ {Min(file.free)}) EXCEPT
                    !.calls = file.calls + 1,
                    !.exists = TRUE, !.linked = TRUE,
                    !.sector = Min(file.free), !.length = initial_size,
                    !.length0 = initial_size,
                    !.last = [op |-> "create"]]
    /\ FileFrame

\* filesys_open(name): fails once the entry is erased.
file_open ==
    /\ file.exists /\ file.state = "ok" /\ file.open_cnt < MaxFileOpens
    /\ file.calls < MaxFileCalls
    /\ file' = IF file.linked
               THEN [file EXCEPT !.open_cnt = @ + 1, !.calls = @ + 1,
                                 !.last = [op |-> "open", ok |-> TRUE]]
               ELSE [file EXCEPT !.calls = @ + 1,
                                 !.last = [op |-> "open", ok |-> FALSE]]
    /\ FileFrame

\* file_close() of a handle.
file_close ==
    /\ file.exists /\ file.state = "ok" /\ file.open_cnt > 0
    /\ file.calls < MaxFileCalls
    /\ file' = [file_inode_close(file) EXCEPT
                    !.calls = file.calls + 1, !.last = [op |-> "close"]]
    /\ FileFrame

\* filesys_remove(name): dir_remove() opens the inode, erases the entry,
\* calls inode_remove() and closes the inode.
file_remove ==
    /\ file.exists /\ file.linked /\ file.state = "ok"
    /\ file.calls < MaxFileCalls
    /\ file' = [file_inode_close([file EXCEPT !.linked = FALSE,
                                              !.removed = TRUE,
                                              !.open_cnt = @ + 1]) EXCEPT
                    !.calls = file.calls + 1, !.last = [op |-> "remove"]]
    /\ FileFrame

\* file_write_at() through a handle.
file_write(size, offset, wild) ==
    /\ file.exists /\ file.state = "ok" /\ file.open_cnt > 0
    /\ file.calls < MaxFileCalls
    /\ LET w == inode_write_at(file, size, offset, wild)
       IN  file' = [w.f EXCEPT
                !.state = w.st, !.calls = @ + 1,
                !.wrote = @ \cup offset..(offset + w.ret - 1),
                !.last = [op |-> "write", size |-> size,
                          offset |-> offset, ret |-> w.ret]]
    /\ FileFrame

\* file_read_at() through a handle.
file_read(size, offset, wild) ==
    /\ file.exists /\ file.state = "ok" /\ file.open_cnt > 0
    /\ file.calls < MaxFileCalls
    /\ LET r == inode_read_at(file, <<>>, size, offset, wild)
       IN  file' = [file EXCEPT
                !.state = r.st, !.calls = @ + 1,
                !.last = [op |-> "read", ret |-> r.ret,
                          past |-> offset >= file.length]]
    /\ FileFrame

InitFile == file = NoFile(FileSectors)

NextFile ==
    \/ \E n \in 0..1 : file_create(n)
    \/ file_open
    \/ file_close
    \/ file_remove
    \/ \E size \in 0..MaxSize, offset \in FileOffsets :
          \E wild \in WildAt(size, offset) : file_write(size, offset, wild)
    \/ \E size \in 0..MaxSize, offset \in FileOffsets :
          \E wild \in WildAt(size, offset) : file_read(size, offset, wild)

\* The sectors the index of the file reaches, with its inode sector.
FileHeld(f) ==
    ({f.sector}
        \cup {f.direct[i] : i \in DOMAIN f.direct}
        \cup {f.indirect[i] : i \in DOMAIN f.indirect}
        \cup {f.sub[s][j] : s \in {f.indirect[i] : i \in DOMAIN f.indirect}
                                    \ {NO_SECTOR},
                            j \in 0..(INDIRECT_NUM_DIRECT - 1)})
    \ {NO_SECTOR}

\* C11: when the last opener has closed a removed inode, every sector that
\* was allocated to it (data sectors, indirect nodes, the inode sector) is
\* free again; the sectors of an inode that is not freed stay allocated.
C11_CloseReleasesRemoved ==
    /\ ~file.exists => file.free = FileSectors
    /\ file.exists => FileHeld(file) \cap file.free = {}

\* C12: once remove(name) has succeeded on a file that is still open, no
\* open of the name succeeds, the file's sectors stay allocated as long as
\* a handle is open, and the close of the last handle releases them all.
C12_RemovedStaysUntilLastClose ==
    /\ file.last.op = "open" /\ file.exists /\ ~file.linked => ~file.last.ok
    /\ file.exists /\ file.removed /\ file.open_cnt > 0
        => FileHeld(file) \cap file.free = {}
    /\ file.last.op = "close" /\ ~file.exists => file.free = FileSectors

\* The last call was a write_at of size > 0 that wrote all its bytes, in a
\* file that lies within the reach of the index: one whose initial size and
\* writes so far were all at offsets that the index reaches.
LastWriteWhole ==
    /\ file.last.op = "write" /\ file.state = "ok"
    /\ file.last.size > 0 /\ file.last.ret = file.last.size
    /\ file.length <= FileCapacity

C14_UnwrittenReadsZero ==
    file.exists /\ file.state = "ok" /\ file.open_cnt > 0 =>
        \A size \in 1..MaxSize, offset \in FileOffsets, wild \in WildValues :
            LET r == inode_read_at(file, <<>>, size, offset, wild)
            IN  /\ r.st = "ok"
                /\ offset >= file.length => r.ret = 0
                /\ \A k \in 1..r.ret :
                        (offset + k - 1) \notin file.wrote => r.out[k] = 0

\* C15: the length of a file is the largest byte offset that a write has
\* reached since the file was created with its initial size: it never
\* shrinks, and it grows only by bytes written.
C15_LengthIsMaxWritten ==
    file.exists /\ file.state = "ok" =>
        file.length =
            -Min({-file.length0} \cup {-(k + 1) : k \in file.wrote})


\* C36: byte_to_sector() at an offset past the reach of the index reports
\* no sector and changes nothing, whatever lies behind the inode's arrays.
C36_PastIndexReportsNoSector ==
    file.exists /\ file.state = "ok" =>
        \A pos \in FileOffsets, create \in BOOLEAN, wild \in WildValues :
            pos >= FileCapacity =>
                LET r == byte_to_sector(file, pos, create, wild)
                IN  r.st = "ok" /\ r.ret = -1 /\ r.f = file

(***************************************************************************)
(* Inode data under concurrency: byte_to_sector(), inode_write_at() and    *)
(* inode_read_at() of filesys/inode.c called by two threads on one file.   *)
(* File reads and writes take no lock of the in-core inode, so the calls   *)
(* interleave wherever a thread holds no content lock of a cache slot.     *)
(* The geometry is the scaled one of the section above; each thread makes  *)
(* one call of one byte.  A sector whose buffer was never initialised      *)
(* holds what the device held: its index entries read as any value.        *)
(***************************************************************************)
CFileFrame == UNCHANGED <<rwVars, fmVars, inVars, fsVars, caVars, file, sdir,
                          cdir, vm, mm>>

NumIoThreads == 2
IoThreads == 1..NumIoThreads
\* inode->sector of the file.
InodeSector == 0
\* An index entry of a sector that was loaded before it was initialised.
Stale == FileDiskSize + 1

\* rw_write_acquire() / rw_read_acquire() of the content lock of the slot
\* of sector s would not block.
CanAcquire(c, s, write) ==
    IF write THEN c.w[s] = NoThread /\ c.r[s] = {} ELSE c.w[s] = NoThread

\* fs_cache_get() of sector s by thread t, as writer or as reader.
CacheGet(c, t, s, write) ==
    IF write THEN [c EXCEPT !.w[s] = t] ELSE [c EXCEPT !.r[s] = @ \cup {t}]

\* fs_cache_release() of sector s by thread t.
CacheRelease(c, t, s) ==
    [c EXCEPT !.w[s] = IF @ = t THEN NoThread ELSE @, !.r[s] = @ \ {t}]

\* The sector the index of the file holds for byte offset pos.
IndexedSector(c, pos) ==
    LET sec_off == pos \div FileSectorSize
        subnode_i == (sec_off - NUM_DIRECT) \div INDIRECT_NUM_DIRECT
        subnode_j == (sec_off - NUM_DIRECT) % INDIRECT_NUM_DIRECT
    IN  IF sec_off < NUM_DIRECT THEN c.direct[sec_off]
        ELSE IF c.indirect[subnode_i] = NO_SECTOR THEN NO_SECTOR
        ELSE c.sub[c.indirect[subnode_i]][subnode_j]

\* file_write_at() / file_read_at() of one byte at pos: inode_read_at()
\* begins with inode_length(), a read of the inode's sector.
cfile_call(t, op, pos) ==
    /\ cfile.th[t].pc = "idle"
    /\ op = "read" => CanAcquire(cfile, InodeSector, FALSE)
    /\ cfile' = [cfile EXCEPT !.th[t] =
                    [@ EXCEPT !.pc = "bts_get", !.op = op, !.pos = pos,
                              !.left = IF op = "read" THEN cfile.length - pos
                                       ELSE 0]]
    /\ CFileFrame

\* byte_to_sector(): data = fs_cache_get(inode->sector, CACHE_WRITE * create).
bts_cache_get(t) ==
    LET create == cfile.th[t].op = "write"
    IN  /\ cfile.th[t].pc = "bts_get"
        /\ CanAcquire(cfile, InodeSector, create)
        /\ cfile' = [CacheGet(cfile, t, InodeSector, create) EXCEPT
                        !.th[t].pc = "bts_index"]
        /\ CFileFrame

\* byte_to_sector() while it holds the inode's sector: the direct branch to
\* its fs_cache_release(data), the indirect branch to the release that
\* precedes the fs_cache_get() of the indirect node, or, when
\* free_map_get() fails for a new indirect node, to the end without a
\* release.
bts_index(t) ==
    LET c == cfile
        th == c.th[t]
        create == th.op = "write"
        sec_off == th.pos \div FileSectorSize
        subnode_i == (sec_off - NUM_DIRECT) \div INDIRECT_NUM_DIRECT
        sec == Min(c.free)
        rel == CacheRelease(c, t, InodeSector)
    IN  /\ th.pc = "bts_index"
        /\ cfile' =
            IF sec_off < NUM_DIRECT THEN
                IF create /\ c.direct[sec_off] = NO_SECTOR /\ c.free # {}
                THEN [rel EXCEPT !.direct[sec_off] = sec, !.free = @ \ {sec},
                                 !.th[t] = [@ EXCEPT !.pc = "bts_zero",
                                                     !.ret = sec]]
                ELSE [rel EXCEPT !.th[t] = [@ EXCEPT !.pc = "bts_ret",
                                                     !.ret = c.direct[sec_off]]]
            ELSE IF c.indirect[subnode_i] = NO_SECTOR /\ create THEN
                IF c.free # {}
                THEN [rel EXCEPT !.indirect[subnode_i] = sec,
                                 !.free = @ \ {sec},
                                 !.th[t] = [@ EXCEPT !.pc = "bts_noload",
                                                     !.sub = sec]]
                ELSE [c EXCEPT !.th[t] = [@ EXCEPT !.pc = "bts_ret",
                                                   !.ret = -1]]
            ELSE IF c.indirect[subnode_i] # NO_SECTOR THEN
                [rel EXCEPT !.th[t].pc = "bts_follow"]
            ELSE [rel EXCEPT !.th[t] = [@ EXCEPT !.pc = "bts_ret", !.ret = -1]]
        /\ CFileFrame

\* The slot that held the inode's sector is given to another sector
\* (entry_to_evict() of some user of the cache) while nobody has it pinned:
\* the data pointer of a thread that released it points to other contents.
cfile_slot_reused(t) ==
    /\ cfile.th[t].pc = "bts_follow"
    /\ ~cfile.th[t].ptr_stale
    /\ cfile.w[InodeSector] = NoThread /\ cfile.r[InodeSector] = {}
    /\ cfile' = [cfile EXCEPT !.th[t].ptr_stale = TRUE]
    /\ CFileFrame

\* byte_to_sector(): subnode = fs_cache_get(data->indirect[subnode_i],
\* CACHE_WRITE * create), the load of data->indirect[subnode_i] coming after
\* fs_cache_release(data).  fs_cache_get() asserts that its sector is one
\* of the device; a thread that follows a sector that is not the file's
\* indirect node may do anything.
bts_follow(t) ==
    LET c == cfile
        th == c.th[t]
        create == th.op = "write"
        sec_off == th.pos \div FileSectorSize
        subnode_i == (sec_off - NUM_DIRECT) \div INDIRECT_NUM_DIRECT
    IN  /\ th.pc = "bts_follow"
        /\ \E v \in (IF th.ptr_stale THEN WildValues
                     ELSE {c.indirect[subnode_i]}) :
              IF v \notin FileSectors THEN
                  cfile' = [c EXCEPT !.th[t] = [@ EXCEPT !.pc = "panic",
                                                         !.unheld = TRUE]]
              ELSE IF v # c.indirect[subnode_i] THEN
                  cfile' = [c EXCEPT !.th[t] = [@ EXCEPT !.pc = "ub",
                                                         !.unheld = TRUE]]
              ELSE /\ CanAcquire(c, v, create)
                   /\ cfile' = [CacheGet(c, t, v, create) EXCEPT
                                   !.th[t] = [@ EXCEPT !.pc = "bts_subnode",
                                                       !.sub = v,
                                                       !.unheld = TRUE]]
        /\ CFileFrame

\* byte_to_sector(): subnode = fs_cache_get(sec, CACHE_NOLOAD) of the new
\* indirect node and the loop that sets its entries to NO_SECTOR.
bts_noload(t) ==
    LET s == cfile.th[t].sub
    IN  /\ cfile.th[t].pc = "bts_noload"
        /\ CanAcquire(cfile, s, TRUE)
        /\ cfile' = [CacheGet(cfile, t, s, TRUE) EXCEPT
                        !.sub[s] = [j \in DOMAIN @ |-> NO_SECTOR],
                        !.th[t].pc = "bts_subnode"]
        /\ CFileFrame

\* byte_to_sector() while it holds the indirect node: the entry for the
\* offset, a new data sector when it has none, fs_cache_release(subnode).
bts_subnode(t) ==
    LET c == cfile
        th == c.th[t]
        create == th.op = "write"
        sec_off == th.pos \div FileSectorSize
        subnode_j == (sec_off - NUM_DIRECT) % INDIRECT_NUM_DIRECT
        s == th.sub
        sec == Min(c.free)
        rel == CacheRelease(c, t, s)
    IN  /\ th.pc = "bts_subnode"
        /\ \E v \in (IF c.sub[s][subnode_j] = Stale THEN WildValues
                     ELSE {c.sub[s][subnode_j]}) :
              cfile' =
                IF create /\ v = NO_SECTOR /\ c.free # {} THEN
                    [rel EXCEPT !.sub[s][subnode_j] = sec, !.free = @ \ {sec},
                                !.th[t] = [@ EXCEPT !.pc = "bts_zero",
                                                    !.ret = sec]]
                ELSE IF v = NO_SECTOR THEN
                    [rel EXCEPT !.th[t] = [@ EXCEPT !.pc = "bts_ret",
                                                    !.ret = -1]]
                ELSE IF v >= FileDiskSize THEN
                    [c EXCEPT !.th[t].pc = "panic"]
                ELSE [rel EXCEPT !.th[t] = [@ EXCEPT !.pc = "bts_ret",
                                                     !.ret = v]]
        /\ CFileFrame

\* byte_to_sector(): if (allocated) fs_cache_write(ret, NULL).
bts_zero(t) ==
    LET ret == cfile.th[t].ret
    IN  /\ cfile.th[t].pc = "bts_zero"
        /\ CanAcquire(cfile, ret, TRUE)
        /\ cfile' = [cfile EXCEPT !.data[ret] = ZeroSector,
                                  !.th[t].pc = "bts_ret"]
        /\ CFileFrame

\* inode_write_at(): the loop's body after byte_to_sector(): the byte goes
\* into the sector under its content lock, or the loop ends without one.
cfile_write_chunk(t) ==
    LET th == cfile.th[t]
    IN  /\ th.pc = "bts_ret" /\ th.op = "write"
        /\ IF th.ret = -1
           THEN cfile' = [cfile EXCEPT !.th[t].pc = "length"]
           ELSE /\ CanAcquire(cfile, th.ret, TRUE)
                /\ cfile' = [cfile EXCEPT
                        !.data[th.ret][th.pos % FileSectorSize] = t,
                        !.th[t] = [@ EXCEPT !.pc = "length", !.written = 1]]
        /\ CFileFrame

\* inode_write_at(): header.length is raised to the offset reached, under
\* the write lock of the inode's sector.
cfile_write_length(t) ==
    LET th == cfile.th[t]
        offset == th.pos + th.written
    IN  /\ th.pc = "length"
        /\ CanAcquire(cfile, InodeSector, TRUE)
        /\ cfile' = [cfile EXCEPT
                        !.length = IF @ < offset THEN offset ELSE @,
                        !.th[t].pc = "returned"]
        /\ CFileFrame

\* inode_read_at(): the loop's body after byte_to_sector(): no byte at or
\* past the length, a zero where the index has no sector, else the byte of
\* the sector read under its content lock.
cfile_read_chunk(t) ==
    LET th == cfile.th[t]
    IN  /\ th.pc = "bts_ret" /\ th.op = "read"
        /\ IF th.left <= 0
           THEN cfile' = [cfile EXCEPT !.th[t].pc = "returned"]
           ELSE IF th.ret = -1
           THEN cfile' = [cfile EXCEPT !.th[t] = [@ EXCEPT !.pc = "returned",
                                                           !.out = <<0>>]]
           ELSE /\ CanAcquire(cfile, th.ret, FALSE)
                /\ cfile' = [cfile EXCEPT !.th[t] =
                        [@ EXCEPT !.pc = "returned",
                                  !.out = <<cfile.data[th.ret]
                                                [th.pos % FileSectorSize]>>]]
        /\ CFileFrame

\* An empty file on a device of which the first n sectors after the
\* inode's are free.
CFileEmpty(n) ==
    [direct |-> [i \in 0..(NUM_DIRECT - 1) |-> NO_SECTOR],
     indirect |-> [i \in 0..(NUM_INDIRECT - 1) |-> NO_SECTOR],
     sub |-> [s \in FileSectors |->
                 [j \in 0..(INDIRECT_NUM_DIRECT - 1) |-> Stale]],
     data |-> [s \in FileSectors |-> ZeroSector],
     length |-> 0,
     free |-> (InodeSector + 1)..n,
     w |-> [s \in FileSectors |-> NoThread],
     r |-> [s \in FileSectors |-> {}],
     th |-> [t \in IoThreads |->
                [pc |-> "idle", op |-> "none", pos |-> 0, left |-> 0,
                 ret |-> -1, sub |-> NO_SECTOR, unheld |-> FALSE,
                 ptr_stale |-> FALSE, written |-> 0, out |-> <<>>]]]

InitCFileIdle == cfile = CFileEmpty(FileDiskSize - 1)

InitCFile == \E n \in 0..(FileDiskSize - 1) : cfile = CFileEmpty(n)

NextCFile ==
    \/ \E t \in IoThreads, op \in {"read", "write"},
          pos \in 0..(FileCapacity - 1) : cfile_call(t, op, pos)
    \/ \E t \in IoThreads : bts_cache_get(t)
    \/ \E t \in IoThreads : bts_index(t)
    \/ \E t \in IoThreads : cfile_slot_reused(t)
    \/ \E t \in IoThreads : bts_follow(t)
    \/ \E t \in IoThreads : bts_noload(t)
    \/ \E t \in IoThreads : bts_subnode(t)
    \/ \E t \in IoThreads : bts_zero(t)
    \/ \E t \in IoThreads : cfile_write_chunk(t)
    \/ \E t \in IoThreads : cfile_write_length(t)
    \/ \E t \in IoThreads : cfile_read_chunk(t)

\* C32: a thread that has left byte_to_sector() holds the content lock of
\* no cache slot, also when the device was full and the write ends short.
C32_ShortWriteHoldsNoSlot ==
    \A t \in IoThreads :
        cfile.th[t].pc \in {"bts_ret", "length", "returned"} =>
            \A s \in FileSectors : cfile.w[s] # t /\ t \notin cfile.r[s]

\* C33: an indirect sector whose index the inode holds has all its entries
\* set: none is still what the device held before the sector was
\* allocated.
C33_IndirectInitialisedBeforeStored ==
    \A i \in 0..(NUM_INDIRECT - 1) :
        cfile.indirect[i] # NO_SECTOR =>
            \A j \in 0..(INDIRECT_NUM_DIRECT - 1) :
                cfile.sub[cfile.indirect[i]][j] # Stale

\* C34: no thread has loaded the sector index it follows from the inode's
\* buffer after it released the inode's slot.
C34_IndexReadWhileHeld ==
    \A t \in IoThreads : ~cfile.th[t].unheld

\* C35: when the threads have returned from writes of different bytes of
\* the file, every byte a write reported written is in the sector that the
\* index holds for it.
C35_DisjointWritesBothTakeEffect ==
    \A t \in IoThreads :
        LET th == cfile.th[t]
            s == IndexedSector(cfile, th.pos)
        IN  (/\ th.pc = "returned" /\ th.op = "write" /\ th.written = 1
             /\ \A u \in IoThreads \ {t} :
                    /\ cfile.th[u].pc \in {"idle", "returned"}
                    /\ cfile.th[u].op = "write" =>
                            cfile.th[u].pos # th.pos)
            => /\ s \in FileSectors
               /\ cfile.data[s][th.pos % FileSectorSize] = t

(***************************************************************************)
(* Directory entries: filesys/directory.c over the inode layer, and        *)
(* filesys_create()/filesys_remove() on names of the root directory.  One  *)
(* process makes the calls.  A directory is its inode: the length in       *)
(* entries, the data sectors that hold the slots, and header.counter.  The *)
(* device's sector count is a multiple of the free map's element size, so  *)
(* free_map_get() fails on a full device.                                  *)
(***************************************************************************)
SDirFrame == UNCHANGED <<rwVars, fmVars, inVars, fsVars, caVars, file, cdir,
                         vm, cfile, mm>>

\* Directory entries in a sector: BLOCK_SECTOR_SIZE / sizeof(dir_entry_t).
SlotsPerSector == 3
\* Entries of a new directory's length (fewer than a sector holds).
DEFAULT_ENTRY_CNT == 2
\* Data sectors a directory can have in the model.
MaxDirSectors == 2
\* Sectors of the device.
SDirDiskSize == 6
\* Sectors that files outside the root directory hold from the start.
MaxOthers == 3
\* The calls stop when the root directory's counter has come this far.
MaxCounter == 3

SDirSectors == 0..(SDirDiskSize - 1)
SDirSlots == 0..(SlotsPerSector * MaxDirSectors - 1)

\* A slot of a sector of zeros, and the inode that inode_create() writes.
ZeroSlot == [in_use |-> FALSE, name |-> "", inode_sector |-> 0, is_dir |-> FALSE]
NewInode(kind, length) ==
    [kind |-> kind, length |-> length, counter |-> 0,
     direct |-> [i \in 0..(MaxDirSectors - 1) |-> NO_SECTOR],
     slots |-> [k \in SDirSlots |-> ZeroSlot]]
NoInode == NewInode("none", 0)

\* lookup(): some slot below the length is in use under the name.
lookup(d, name) ==
    \E k \in SDirSlots : k < d.length /\ d.slots[k].in_use /\ d.slots[k].name = name

\* dir_add(), the name being valid: the directory inode, the free map and
\* the result.  The slot is written by inode_write_at(), which needs the
\* slot's sector and allocates it if the index has none.
dir_add(d, free, name, inode_sector, is_dir) ==
    LET unused == {k \in SDirSlots : k < d.length /\ ~d.slots[k].in_use}
        ofs == IF unused = {} THEN d.length ELSE Min(unused)
        sec_off == ofs \div SlotsPerSector
        full == d.direct[sec_off] = NO_SECTOR /\ free = {}
        e == [in_use |-> TRUE, name |-> name, inode_sector |-> inode_sector,
              is_dir |-> is_dir]
    IN  IF lookup(d, name) THEN [d |-> d, free |-> free, success |-> FALSE]
        ELSE IF full THEN
            [d |-> [d EXCEPT !.counter = @ + 1], free |-> free,
             success |-> FALSE]
        ELSE
            [d |-> [d EXCEPT
                    !.direct[sec_off] =
                        IF @ = NO_SECTOR THEN Min(free) ELSE @,
                    !.slots[ofs] = e,
                    !.length = IF @ < ofs + 1 THEN ofs + 1 ELSE @,
                    !.counter = @ + 1],
             free |-> IF d.direct[sec_off] = NO_SECTOR
                      THEN free \ {Min(free)} ELSE free,
             success |-> TRUE]

\* _dir_create(): the new directory's inode, the free map and the result.
\* dir_close() leaves the inode and its sectors as they are.
dir_create(free, sector, parent) ==
    LET a == dir_add(NewInode("dir", DEFAULT_ENTRY_CNT), free, SELF_STR,
                     sector, TRUE)
        b == dir_add(a.d, a.free, PARENT_STR, parent, TRUE)
    IN  IF ~a.success THEN a
        ELSE IF ~b.success THEN b
        ELSE [b EXCEPT !.d.counter = @ - 2]

\* The device after do_format() and after files elsewhere took `others`
\* sectors.
SDirFormatted(others) ==
    LET root == dir_create(SDirSectors \ {ROOT_DIR_SECTOR}, ROOT_DIR_SECTOR,
                           ROOT_DIR_SECTOR)
        taken == {s \in root.free :
                    Cardinality({t \in root.free : t < s}) < others}
    IN  [free |-> root.free \ taken,
         inodes |-> [s \in SDirSectors |->
                        IF s = ROOT_DIR_SECTOR THEN root.d ELSE NoInode],
         last |-> [op |-> "none"]]

\* filesys_create(name, 0, is_dir) in the root directory.
sdir_create(name, is_dir) ==
    LET root == sdir.inodes[ROOT_DIR_SECTOR]
        inode_sector == Min(sdir.free)
        free1 == sdir.free \ {inode_sector}
        made == IF is_dir THEN dir_create(free1, inode_sector, ROOT_DIR_SECTOR)
                ELSE [d |-> NewInode("file", 0), free |-> free1,
                      success |-> TRUE]
        added == dir_add(root, made.free, name, inode_sector, is_dir)
        success == sdir.free # {} /\ made.success /\ added.success
    IN  /\ root.counter < MaxCounter
        /\ sdir' =
            IF sdir.free = {} THEN
                [sdir EXCEPT !.last = [op |-> "create", success |-> FALSE,
                                       is_dir |-> is_dir,
                                       before |-> sdir.free]]
            ELSE IF ~made.success THEN
                [sdir EXCEPT !.free = made.free \cup {inode_sector},
                             !.last = [op |-> "create", success |-> FALSE,
                                       is_dir |-> is_dir,
                                       before |-> sdir.free]]
            ELSE
                [free |-> IF added.success THEN added.free
                          ELSE added.free \cup {inode_sector},
                 inodes |-> [sdir.inodes EXCEPT
                                ![ROOT_DIR_SECTOR] = added.d,
                                ![inode_sector] =
                                    IF added.success THEN made.d ELSE @],
                 last |-> [op |-> "create", success |-> added.success,
                           is_dir |-> is_dir, before |-> sdir.free]]
       /\ SDirFrame

\* filesys_remove(name) in the root directory: dir_remove() erases the
\* slot, and the last close of the removed inode releases its sectors.
sdir_remove(name) ==
    LET root == sdir.inodes[ROOT_DIR_SECTOR]
        ofs == CHOOSE k \in SDirSlots :
                  k < root.length /\ root.slots[k].in_use
                  /\ root.slots[k].name = name
        e == root.slots[ofs]
        inode == sdir.inodes[e.inode_sector]
        may == ~e.is_dir \/ inode.counter = 0
    IN  /\ lookup(root, name)
        /\ sdir' =
            IF ~may THEN
                [sdir EXCEPT !.last = [op |-> "remove", success |-> FALSE]]
            ELSE
                [free |-> sdir.free \cup {e.inode_sector}
                            \cup ({inode.direct[i] : i \in DOMAIN inode.direct}
                                    \ {NO_SECTOR}),
                 inodes |-> [sdir.inodes EXCEPT
                                ![ROOT_DIR_SECTOR].slots[ofs].in_use = FALSE,
                                ![ROOT_DIR_SECTOR].counter = @ - 1,
                                ![e.inode_sector] = NoInode],
                 last |-> [op |-> "remove", success |-> TRUE]]
        /\ SDirFrame

InitSDir == \E others \in 0..MaxOthers : sdir = SDirFormatted(others)
InitSDirIdle == sdir = SDirFormatted(0)

NextSDir ==
    \/ \E name \in Names \ {SELF_STR, PARENT_STR}, is_dir \in BOOLEAN :
          sdir_create(name, is_dir)
    \/ \E name \in Names \ {SELF_STR, PARENT_STR} : sdir_remove(name)

\* C16: after any sequence of adds and removes, failed ones included, the
\* counter of a directory is the number of its in-use entries other than
\* "." and "..".
C16_CounterIsEntryCount ==
    \A s \in SDirSectors :
        sdir.inodes[s].kind = "dir" =>
            sdir.inodes[s].counter =
                Cardinality({k \in SDirSlots :
                    /\ k < sdir.inodes[s].length
                    /\ sdir.inodes[s].slots[k].in_use
                    /\ sdir.inodes[s].slots[k].name \notin
                            {SELF_STR, PARENT_STR}})

\* C20: when creating a file or a directory fails after sectors were
\* allocated, every sector allocated during the attempt is released: the
\* free map after the failed call is the free map before it.
C20_FailedCreateRestoresFreeMap ==
    sdir.last.op = "create" /\ ~sdir.last.success
        => sdir.free = sdir.last.before

(***************************************************************************)
(* Concurrent creates and removes: filesys_create(), filesys_remove() and  *)
(* the open and close of a directory (filesys.c), with dir_add() and       *)
(* dir_remove() (directory.c) under the lock of the directory's in-core    *)
(* inode, and inode_open()/inode_close() (inode.c) of that inode.  The     *)
(* root directory holds the directory "d"; the threads create "x" in the   *)
(* root or in d, remove d, and open and close d.  The root's in-core inode *)
(* stays open as every process's working directory.  A struct inode that   *)
(* was freed keeps its contents while a thread still uses it.              *)
(***************************************************************************)
CDirFrame == UNCHANGED <<rwVars, fmVars, inVars, fsVars, caVars, file, sdir,
                         vm, cfile, mm>>

NumCDirThreads == 2
\* The struct inodes that malloc() can hand out for d's sector at a time.
MaxCDirInodes == 2
\* Slots of a directory.
NumCDirSlots == 2

CDirThreads == 1..NumCDirThreads
CDirInodes == 1..MaxCDirInodes
CDirSlots == 0..(NumCDirSlots - 1)

\* A struct inode that is not allocated, and a thread between two calls.
NoCDirInode == [state |-> "free", open_cnt |-> 0, removed |-> FALSE,
                writer |-> NoThread]
CDirIdle == [pc |-> "idle", op |-> "none", dir |-> "", inode |-> NULL,
             ofs |-> 0]

\* The struct inode of d that is in open_inodes, or NULL.
CDirListed(c) ==
    IF \E i \in CDirInodes : c.inodes[i].state = "listed"
    THEN CHOOSE i \in CDirInodes : c.inodes[i].state = "listed"
    ELSE NULL

\* inode_open() of d's sector: the handle and the struct inodes after it.
cdir_inode_open(c) ==
    LET new == Min({i \in CDirInodes : c.inodes[i].state = "free"})
    IN  IF CDirListed(c) # NULL
        THEN [inode |-> CDirListed(c),
              inodes |-> [c.inodes EXCEPT ![CDirListed(c)].open_cnt = @ + 1]]
        ELSE [inode |-> new,
              inodes |-> [c.inodes EXCEPT ![new] =
                            [state |-> "listed", open_cnt |-> 1,
                             removed |-> FALSE, writer |-> NoThread]]]

\* The name is in use in the directory.
cdir_lookup(c, dir, name) == \E k \in CDirSlots : c.slots[dir][k] = name

\* A thread calls create("x") in the root or in d, remove("d"), or open("d")
\* followed by close.  Without this call every thread stays idle.
cdir_call(t, op, dir) ==
    /\ cdir.th[t].pc = "idle"
    /\ cdir' = [cdir EXCEPT !.th[t] =
                    [CDirIdle EXCEPT !.op = op, !.dir = dir,
                        !.pc = IF dir = "root" /\ op = "create"
                               THEN "lock" ELSE "dir_lookup"]]
    /\ CDirFrame

\* dir_lookup(root, "d") under the root's read lock, with inode_open().
cdir_dir_lookup(t) ==
    /\ cdir.th[t].pc = "dir_lookup"
    /\ cdir.root_writer = NoThread
    /\ \/ CDirListed(cdir) # NULL
       \/ \E i \in CDirInodes : cdir.inodes[i].state = "free"
       \/ ~cdir_lookup(cdir, "root", "d")
    /\ cdir' =
        IF ~cdir_lookup(cdir, "root", "d")
        THEN [cdir EXCEPT !.th[t] = CDirIdle]
        ELSE LET o == cdir_inode_open(cdir)
             IN  [cdir EXCEPT
                    !.inodes = o.inodes,
                    !.th[t].inode = o.inode,
                    !.th[t].pc = IF cdir.th[t].op = "open" THEN "close"
                                 ELSE "lock"]
    /\ CDirFrame

\* The thread is the only holder of the lock it asks for: dir_add() takes
\* the write lock of the directory's struct inode, filesys_remove() that of
\* the struct inode of the directory to remove.
CDirLockFree(t) ==
    IF cdir.th[t].dir = "root" THEN cdir.root_writer = NoThread
    ELSE cdir.inodes[cdir.th[t].inode].writer = NoThread

\* inode_lock_write() in dir_add() or in filesys_remove().
cdir_lock(t) ==
    /\ cdir.th[t].pc = "lock"
    /\ CDirLockFree(t)
    /\ cdir' =
        LET c == IF cdir.th[t].dir = "root"
                 THEN [cdir EXCEPT !.root_writer = t]
                 ELSE [cdir EXCEPT !.inodes[cdir.th[t].inode].writer = t,
                        !.ub = @ \/ cdir.inodes[cdir.th[t].inode].state = "freed"]
        IN  [c EXCEPT !.th[t].pc =
                IF cdir.th[t].op = "create" THEN "add_lookup" ELSE "check"]
    /\ CDirFrame

\* inode_unlock_write() of the lock taken in cdir_lock().
cdir_unlock(c, t) ==
    IF c.th[t].dir = "root" THEN [c EXCEPT !.root_writer = NoThread]
    ELSE [c EXCEPT !.inodes[c.th[t].inode].writer = NoThread]

\* dir_add(): lookup() and the search for a free slot.
cdir_add_lookup(t) ==
    LET dir == cdir.th[t].dir
        unused == {k \in CDirSlots : cdir.slots[dir][k] = ""}
    IN  /\ cdir.th[t].pc = "add_lookup"
        /\ cdir' =
            IF cdir_lookup(cdir, dir, "x") \/ unused = {}
            THEN [cdir_unlock(cdir, t) EXCEPT
                    !.tried[dir] = @ \cup {t},
                    !.th[t] = IF dir = "root" THEN CDirIdle
                              ELSE [@ EXCEPT !.pc = "close"]]
            ELSE [cdir EXCEPT !.th[t].ofs = Min(unused),
                              !.th[t].pc = "add_write"]
        /\ CDirFrame

\* dir_add(): the write of the slot, inode_counter_add() and the unlock.
cdir_add_write(t) ==
    LET dir == cdir.th[t].dir
    IN  /\ cdir.th[t].pc = "add_write"
        /\ cdir' =
            [cdir_unlock(cdir, t) EXCEPT
                !.slots[dir][cdir.th[t].ofs] = "x",
                !.counter[dir] = @ + 1,
                !.tried[dir] = @ \cup {t},
                !.created[dir] = @ \cup {t},
                !.late = @ \/ (dir = "d" /\ ~cdir_lookup(cdir, "root", "d")),
                !.th[t] = IF dir = "root" THEN CDirIdle
                          ELSE [@ EXCEPT !.pc = "close"]]
        /\ CDirFrame

\* filesys_remove(): the test of the open count and of the counter, under
\* the write lock of the directory to remove.
cdir_remove_check(t) ==
    LET i == cdir.th[t].inode
    IN  /\ cdir.th[t].pc = "check"
        /\ cdir' =
            IF cdir.inodes[i].open_cnt <= 1 /\ cdir.counter["d"] = 0
            THEN [cdir EXCEPT !.th[t].pc = "dir_remove"]
            ELSE [cdir_unlock(cdir, t) EXCEPT !.th[t].pc = "close"]
        /\ CDirFrame

\* dir_remove(root, "d") under the root's write lock: it erases the entry,
\* marks the struct inode that inode_open() gives it as removed and closes
\* it; then filesys_remove() gives up the lock of the directory.
cdir_dir_remove(t) ==
    LET o == cdir_inode_open(cdir)
        last == o.inodes[o.inode].open_cnt = 1
        k == CHOOSE k \in CDirSlots : cdir.slots["root"][k] = "d"
    IN  /\ cdir.th[t].pc = "dir_remove"
        /\ cdir.root_writer = NoThread
        /\ \/ CDirListed(cdir) # NULL
           \/ \E i \in CDirInodes : cdir.inodes[i].state = "free"
        /\ cdir' =
            IF ~cdir_lookup(cdir, "root", "d")
            THEN [cdir_unlock(cdir, t) EXCEPT !.th[t].pc = "close"]
            ELSE [cdir_unlock(cdir, t) EXCEPT
                    !.slots["root"][k] = "",
                    !.counter["root"] = @ - 1,
                    !.inodes[o.inode] =
                        IF last THEN NoCDirInode
                        ELSE [@ EXCEPT !.removed = TRUE],
                    !.released = @ \/ last,
                    !.removal = [done |-> TRUE,
                                 open_cnt |-> cdir.inodes[cdir.th[t].inode].open_cnt,
                                 counter |-> cdir.counter["d"]],
                    !.th[t].pc = "close"]
        /\ CDirFrame

\* inode_close(): atomic_add(&inode->open_cnt, -1).
cdir_close(t) ==
    LET i == cdir.th[t].inode
    IN  /\ cdir.th[t].pc = "close"
        /\ cdir' =
            IF cdir.inodes[i].open_cnt = 1
            THEN [cdir EXCEPT !.inodes[i].open_cnt = 0,
                              !.th[t].pc = "close_free"]
            ELSE [cdir EXCEPT !.inodes[i].open_cnt = @ - 1,
                              !.th[t] = CDirIdle]
        /\ CDirFrame

\* inode_close(): list_remove() under open_lock, the release of a removed
\* inode's sectors, free().  The memory is reused only when no thread has
\* the struct inode any more.
cdir_close_free(t) ==
    LET i == cdir.th[t].inode
        used == \E u \in CDirThreads \ {t} :
                    cdir.th[u].pc # "idle" /\ cdir.th[u].inode = i
    IN  /\ cdir.th[t].pc = "close_free"
        /\ cdir' =
            [cdir EXCEPT
                !.inodes[i] = IF used THEN [@ EXCEPT !.state = "freed"]
                              ELSE NoCDirInode,
                !.released = @ \/ cdir.inodes[i].removed,
                !.ub = @ \/ used \/ cdir.inodes[i].state = "freed",
                !.th[t] = CDirIdle]
        /\ CDirFrame

InitCDir ==
    cdir = [slots |-> [dir \in {"root", "d"} |->
                        [k \in CDirSlots |->
                            IF dir = "root" /\ k = 0 THEN "d" ELSE ""]],
            counter |-> [dir \in {"root", "d"} |->
                            IF dir = "root" THEN 1 ELSE 0],
            inodes |-> [i \in CDirInodes |-> NoCDirInode],
            root_writer |-> NoThread,
            th |-> [t \in CDirThreads |-> CDirIdle],
            tried |-> [dir \in {"root", "d"} |-> {}],
            created |-> [dir \in {"root", "d"} |-> {}],
            removal |-> [done |-> FALSE, open_cnt |-> 0, counter |-> 0],
            released |-> FALSE, late |-> FALSE, ub |-> FALSE]

NextCDir ==
    \E t \in CDirThreads :
        \/ \E dir \in {"root", "d"} : cdir_call(t, "create", dir)
        \/ cdir_call(t, "remove", "d")
        \/ cdir_call(t, "open", "d")
        \/ cdir_dir_lookup(t)
        \/ cdir_lock(t)
        \/ cdir_add_lookup(t)
        \/ cdir_add_write(t)
        \/ cdir_remove_check(t)
        \/ cdir_dir_remove(t)
        \/ cdir_close(t)
        \/ cdir_close_free(t)

\* C17: dir_add() is atomic against the other writers of the directory: no
\* directory holds two in-use entries of one name, and of the threads that
\* create a name in a directory exactly one succeeds.
C17_OneCreateWins ==
    \A dir \in {"root", "d"} :
        /\ Cardinality({k \in CDirSlots : cdir.slots[dir][k] = "x"}) <= 1
        /\ cdir.tried[dir] # {} => Cardinality(cdir.created[dir]) = 1

\* C18: a directory is removed only when its open count is at most 1 and
\* its counter is 0: a directory with a live child is never removed, and no
\* entry is added to a directory after it was removed.
C18_RemovedOnlyUnusedAndEmpty ==
    /\ cdir.removal.done =>
            cdir.removal.open_cnt <= 1 /\ cdir.removal.counter = 0
    /\ ~cdir.late
    /\ ~cdir_lookup(cdir, "root", "d") =>
            \A k \in CDirSlots : cdir.slots["d"][k] = ""

(***************************************************************************)
(* Virtual memory: the frame table (vm/frametbl.c), the supplemental page  *)
(* table (vm/mappings.c) and the swap table (vm/swaptbl.c).  Every thread  *)
(* is a user process with its own page table: it stores to its pages,      *)
(* faults on the ones that are not resident, pins a page for a system      *)
(* call, unmaps its memory-mapped file and exits.  A frame is found by     *)
(* frametbl_get_frame(), which evicts a page of any process when no frame  *)
(* is unused; the timer interrupt ages the frames.  Mapping 1 is a page of *)
(* a memory-mapped file (hasfile, fwrite), mapping 2 a page of a data      *)
(* segment (hasfile, not fwrite), the others are anonymous.  palloc.c,     *)
(* pagedir.c and the page-fault handler are not in src/: for a user page   *)
(* palloc_get_page() is frametbl_get_frame(), palloc_free_page() is        *)
(* frametbl_empty_frame(), pagedir_clear_page() clears the present bit of  *)
(* the entry and leaves its dirty bit, and the fault handler calls         *)
(* vm_load_page() and unpins the frame.                                    *)
(***************************************************************************)
VMFrame == UNCHANGED <<rwVars, fmVars, inVars, fsVars, caVars, file, sdir, cdir,
                       cfile, mm>>

NumVMThreads == 2
NumFrames == 2
NumMappings == 4
NumSwapSlots == 2
\* Bits of age_t.
AgeBits == 1
\* The values a process stores, one after the other; a new page holds 0.
MaxVal == 1
\* BLOCK_CNT of thread_tick().
TICK_BLOCK_CNT == 2
\* The faults, system calls, munmaps and exits of a run, and its timer ticks
\* that age frames.
MaxVMCalls == 3
MaxVMTicks == 1

VMThreads == 1..NumVMThreads
Frames == 1..NumFrames
Mappings == 1..NumMappings
SwapSlots == 0..(NumSwapSlots - 1)
AGE_MAX == 2^AgeBits - 1
UNPINNED == 1

\* The process that owns a mapping, and what backs the mapping.
MapOwner(m) == IF m <= 2 THEN 1 ELSE NumVMThreads
MapKind(m) == IF m = 1 THEN "mmap" ELSE IF m = 2 THEN "data" ELSE "anon"

\* The record vm_set_page() makes.
vm_set_page(kind) ==
    [state |-> "table", lock |-> NoThread, present |-> FALSE,
     hasfile |-> kind # "anon", fwrite |-> kind = "mmap",
     orphaned |-> FALSE, swapped |-> FALSE, frame |-> NULL, swap_slot |-> 0]

\* A thread in user mode.
VMUser == [pc |-> "user", op |-> "none", m |-> NULL, v |-> NULL, f |-> NULL,
           best |-> NULL, best_age |-> AGE_MAX, i |-> 0, hand |-> 0,
           is_dirty |-> FALSE, scan |-> {}, seen |-> {}]

\* The lock hierarchy, first to last.
LockOrder == <<"cache", "slot_evict", "slot_content", "free_map", "open_lock",
               "inode_lock", "pt_hash", "mapping", "frame_tbl", "frame_pin",
               "swap">>
LockRank(l) == CHOOSE k \in DOMAIN LockOrder : LockOrder[k] = l

\* The locks of the hierarchy that a thread holds: mapping locks, the
\* frame table's lock and frame pins.
VMHeld(c, t) ==
    {<<"mapping", m>> : m \in {x \in Mappings : c.map[x].lock = t}}
    \cup (IF c.lock = t THEN {<<"frame_tbl", 0>>} ELSE {})
    \cup {<<"frame_pin", f>> : f \in c.pinned[t]}

\* The use of a mapping record: of a freed one it is a use after free.
VMUse(c, m) == [c EXCEPT !.ub = @ \/ c.map[m].state = "freed"]

\* unpin_fte(): bin_sema_up() asserts that the semaphore is down.
unpin_fte(c, t, f) ==
    IF c.tbl[f].lock = UNPINNED
    THEN [c EXCEPT !.panic = "bin_sema_up"]
    ELSE [c EXCEPT !.tbl[f].lock = UNPINNED, !.pinned[t] = @ \ {f}]

\* The lowest free swap slot of swaptbl_store(), or no slot.
swap_lowest(c) ==
    IF \A s \in SwapSlots : c.slots[s].occupied THEN NumSwapSlots
    ELSE Min({s \in SwapSlots : ~c.slots[s].occupied})

\* swaptbl_store() of a frame for mapping v.
swaptbl_store(c, t, v, f) ==
    LET slot == swap_lowest(c)
    IN  IF slot = NumSwapSlots THEN [c EXCEPT !.panic = "swaptbl_store"]
        ELSE [c EXCEPT !.slots[slot] = [occupied |-> TRUE, data |-> c.mem[f]],
                        !.map[v].swap_slot = slot]

\* swaptbl_load() of a slot: it asserts that the slot is occupied.
swaptbl_load(c, t, slot) ==
    IF ~c.slots[slot].occupied THEN [c EXCEPT !.panic = "swaptbl_load"]
    ELSE [c EXCEPT !.slots[slot].occupied = FALSE]

\* evict_to_file(): the frame of the mapping goes to its page of the file.
evict_to_file(c, t, v) ==
    [c EXCEPT !.filedata[v] = c.mem[c.map[v].frame]]

\* What a page holds, or would hold once loaded: its frame, its file, its
\* swap slot, or zeros.
PageValue(c, m) ==
    IF c.pte[m].p THEN c.mem[c.pte[m].frame]
    ELSE IF c.map[m].hasfile THEN c.filedata[m]
    ELSE IF c.map[m].swapped THEN c.slots[c.map[m].swap_slot].data
    ELSE 0

\* A process stores to a resident page: the hardware sets the accessed and
\* the dirty bit.
vm_store(t, m) ==
    /\ vm.panic = "" /\ vm.th[t].pc = "user"
    /\ MapOwner(m) = t /\ vm.map[m].state = "table" /\ vm.pte[m].p
    /\ vm.want[m] < MaxVal
    /\ vm' = [vm EXCEPT !.mem[vm.pte[m].frame] = vm.want[m] + 1,
                        !.want[m] = @ + 1,
                        !.pte[m].d = TRUE, !.pte[m].a = TRUE]
    /\ VMFrame

\* A process touches a page that is not resident (vm_load_page() with the
\* mapping's lock), or a system call pins a page of its buffer
\* (vm_pin_pages()): a resident page has its frame pinned, another one is
\* loaded under the mapping's lock.
vm_call(t, op, m) ==
    /\ vm.panic = "" /\ vm.th[t].pc = "user" /\ vm.map[m].lock = NoThread
    /\ MapOwner(m) = t /\ vm.map[m].state = "table"
    /\ op = "fault" => ~vm.pte[m].p
    /\ vm.calls < MaxVMCalls
    /\ vm' =
        LET c == [vm EXCEPT !.calls = @ + 1]
            f == vm.pte[m].frame
        IN  IF op = "pin" /\ vm.pte[m].p
            THEN IF vm.tbl[f].lock # UNPINNED
                 THEN [c EXCEPT !.panic = "vm_pin_pages"]
                 ELSE [c EXCEPT !.tbl[f].lock = 0, !.pinned[t] = @ \cup {f},
                                !.buf[t] = {m},
                                !.th[t] = [VMUser EXCEPT !.pc = "kernel"]]
            ELSE [c EXCEPT !.map[m].lock = t,
                           !.th[t] = [VMUser EXCEPT !.pc = "get", !.op = op,
                                                    !.m = m]]
    /\ VMFrame

\* vm_unpin_pages() at the end of the system call.
vm_unpin_pages(t) ==
    /\ vm.panic = "" /\ vm.th[t].pc = "kernel"
    /\ vm' =
        LET m == CHOOSE x \in Mappings : x \in vm.buf[t]
        IN  IF ~vm.pte[m].p THEN [vm EXCEPT !.panic = "vm_unpin_pages"]
            ELSE [unpin_fte(vm, t, vm.pte[m].frame) EXCEPT
                    !.buf[t] = {}, !.th[t] = VMUser]
    /\ VMFrame

\* The start of a pass of frame_to_evict().
scan_start(c, t) ==
    [c EXCEPT !.hand = (@ + 1) % NumFrames,
              !.th[t] = [@ EXCEPT !.pc = "scan", !.hand = c.hand, !.i = 0,
                            !.best = NULL, !.best_age = AGE_MAX,
                            !.scan = {}, !.seen = {}]]

\* frametbl_get_frame() under the frame table's lock: with no unused frame
\* it goes to look for a victim, else it takes the first one and pins it.
frametbl_get_frame(t) ==
    /\ vm.panic = "" /\ vm.th[t].pc = "get" /\ vm.lock = NoThread
    /\ vm' =
        LET c == vm
            f == Head(vm.unused)
        IN  IF vm.unused = <<>> THEN scan_start(c, t)
            ELSE IF vm.tbl[f].lock # UNPINNED
            THEN [c EXCEPT !.panic = "frametbl_get_frame"]
            ELSE [c EXCEPT !.unused = Tail(@), !.tbl[f].lock = 0,
                           !.pinned[t] = @ \cup {f},
                           !.th[t].f = f, !.th[t].pc = "fill"]
    /\ VMFrame

\* The comparison of frame_to_evict(): the frame replaces the best one.
scan_better(best_age, age) == best_age >= age

\* One frame of the pass of frame_to_evict(): the pin, the comparison with
\* the best frame so far and the unpin of the one that lost; after the last
\* frame the pass returns its best frame or starts again.
frame_to_evict(t) ==
    LET th == vm.th[t]
        f == ((th.i + th.hand) % NumFrames) + 1
        got == vm.tbl[f].lock = UNPINNED
        age == vm.tbl[f].age
        better == scan_better(th.best_age, age)
        \* the frame is pinned
        c1 == [vm EXCEPT
                    !.tbl[f].lock = 0, !.pinned[t] = @ \cup {f},
                    !.th[t].scan = @ \cup {f}, !.th[t].seen = @ \cup {age}]
        \* the loser is unpinned
        loser == IF better THEN th.best ELSE f
        c2 == IF loser = NULL THEN c1
              ELSE [unpin_fte(c1, t, loser) EXCEPT !.th[t].scan = @ \ {loser}]
        c3 == IF better
              THEN [c2 EXCEPT !.th[t].best = f, !.th[t].best_age = age]
              ELSE c2
        c4 == [(IF got THEN c3 ELSE vm) EXCEPT !.th[t].i = @ + 1]
        r == c4.th[t]
    IN  /\ vm.panic = "" /\ th.pc = "scan"
        /\ vm' =
            IF c4.panic # "" THEN c4
            ELSE IF (got /\ r.best_age = 0) \/ (r.i = NumFrames /\ r.best # NULL)
            THEN [c4 EXCEPT !.th[t].pc = "evict", !.th[t].f = r.best]
            ELSE IF r.i = NumFrames THEN scan_start(c4, t)
            ELSE c4
        /\ VMFrame

\* vm_evict_page(fte->mapping), before the mapping's lock: without a mapping
\* it returns at once and the frame stays pinned.
vm_evict_page(t) ==
    LET f == vm.th[t].f
        v == vm.tbl[f].mapping
    IN  /\ vm.panic = "" /\ vm.th[t].pc = "evict"
        /\ vm' =
            IF v = NULL
            THEN [vm EXCEPT !.th[t] = [VMUser EXCEPT !.pc = "get",
                                !.op = vm.th[t].op, !.m = vm.th[t].m]]
            ELSE IF ~vm.map[v].present
            THEN [VMUse(vm, v) EXCEPT !.panic = "vm_evict_page"]
            ELSE [VMUse(vm, v) EXCEPT !.th[t] =
                    [VMUser EXCEPT !.pc = "lock", !.op = vm.th[t].op,
                        !.m = vm.th[t].m, !.v = v, !.f = vm.map[v].frame]]
        /\ VMFrame

\* vm_evict_page() takes the mapping's lock: an orphaned mapping is freed
\* (mapping_free()), of another one present is cleared and the dirty bit
\* is read.
vm_evict_lock(t) ==
    LET v == vm.th[t].v
    IN  /\ vm.panic = "" /\ vm.th[t].pc = "lock"
        /\ vm.map[v].lock = NoThread
        /\ vm' =
            LET c == [VMUse(vm, v) EXCEPT
                        !.map[v].lock = t]
            IN  IF vm.map[v].orphaned
                THEN [c EXCEPT !.th[t].pc = "empty"]
                ELSE [c EXCEPT !.map[v].present = FALSE,
                               !.th[t].is_dirty = vm.pte[v].d,
                               !.th[t].pc = "clear"]
        /\ VMFrame

\* vm_evict_page() clears the page from the page directory and saves the
\* frame: a clean page that was never swapped is dropped, a page of a
\* writable file goes to the file, any other page to a swap slot.
vm_evict_clear(t) ==
    LET v == vm.th[t].v
        f == vm.th[t].f
        mp == vm.map[v]
        c == [vm EXCEPT !.pte[v].p = FALSE, !.evicted[v] = <<vm.mem[f]>>,
                        !.th[t].is_dirty = FALSE, !.th[t].pc = "empty"]
    IN  /\ vm.panic = "" /\ vm.th[t].pc = "clear"
        /\ vm' =
            IF ~vm.th[t].is_dirty /\ ~mp.swapped THEN c
            ELSE IF mp.hasfile /\ mp.fwrite THEN evict_to_file(c, t, v)
            ELSE swaptbl_store(
                    [c EXCEPT !.map[v].hasfile = FALSE, !.map[v].fwrite = FALSE,
                              !.map[v].swapped = TRUE], t, v, f)
        /\ VMFrame

\* frametbl_empty_frame(): the assertion that the frame is pinned, the
\* frame table's lock and the unpin.
frametbl_empty_frame(t) ==
    LET f == vm.th[t].f
    IN  /\ vm.panic = "" /\ vm.th[t].pc = "empty" /\ vm.lock = NoThread
        /\ vm' =
            IF vm.tbl[f].lock = UNPINNED
            THEN [vm EXCEPT !.panic = "frametbl_empty_frame"]
            ELSE [vm EXCEPT
                    !.lock = t, !.tbl[f].lock = UNPINNED,
                    !.pinned[t] = @ \ {f}, !.th[t].pc = "init"]
        /\ VMFrame

\* init_fte() at the end of frametbl_empty_frame(): the frame loses its
\* owner, its semaphore is set up again and it goes to the unused list;
\* then vm_evict_page() releases the mapping's lock, or mapping_free()
\* frees the orphaned mapping.
init_fte(t) ==
    LET f == vm.th[t].f
        v == vm.th[t].v
    IN  /\ vm.panic = "" /\ vm.th[t].pc = "init"
        /\ vm' =
            [vm EXCEPT
                !.tbl[f].mapping = NULL, !.tbl[f].lock = UNPINNED,
                !.unused = IF \E k \in DOMAIN @ : @[k] = f THEN @
                           ELSE Append(@, f),
                !.reinit = @ \/ \E u \in VMThreads : f \in vm.pinned[u],
                !.lock = NoThread,
                !.map[v].lock = NoThread,
                !.map[v].state = IF vm.map[v].orphaned THEN "freed" ELSE @,
                !.frees[v] = IF vm.map[v].orphaned THEN @ \cup {"evict"} ELSE @,
                !.ub = @ \/ (\E k \in DOMAIN vm.unused : vm.unused[k] = f)
                         \/ (vm.map[v].orphaned /\ vm.map[v].state = "freed"),
                !.th[t] = [VMUser EXCEPT !.pc = "get", !.op = vm.th[t].op,
                                         !.m = vm.th[t].m]]
        /\ VMFrame

\* The rest of _load_page() with the frame it was given: the page's
\* contents from the file, the swap slot or zeros, the page directory's
\* entry, present, frame and the frame's owner.  The fault handler then
\* releases the mapping's lock and unpins the frame; vm_pin_pages() releases
\* the lock and keeps the pin.
vm_load_fill(t) ==
    LET m == vm.th[t].m
        f == vm.th[t].f
        mp == vm.map[m]
        data == IF mp.hasfile THEN vm.filedata[m]
                ELSE IF mp.swapped THEN vm.slots[mp.swap_slot].data
                ELSE 0
        c1 == IF mp.hasfile THEN vm
              ELSE IF mp.swapped THEN swaptbl_load(vm, t, mp.swap_slot)
              ELSE vm
        c2 == [c1 EXCEPT
                !.mem[f] = data,
                !.pte[m] = [p |-> TRUE, d |-> FALSE, a |-> FALSE, frame |-> f],
                !.map[m].present = TRUE, !.map[m].frame = f,
                !.map[m].lock = NoThread,
                !.tbl[f].mapping = m]
    IN  /\ vm.panic = "" /\ vm.th[t].pc = "fill"
        /\ vm' =
            IF c1.panic # "" THEN c1
            ELSE IF vm.th[t].op = "fault"
            THEN [unpin_fte(c2, t, f) EXCEPT !.th[t] = VMUser]
            ELSE [c2 EXCEPT !.buf[t] = {m},
                            !.th[t] = [VMUser EXCEPT !.pc = "kernel"]]
        /\ VMFrame

\* The mappings of a process that its page table still holds.
VMTable(c, t) == {m \in Mappings : MapOwner(m) = t /\ c.map[m].state = "table"}

\* munmap(): vm_clear_page() clears the page from the page directory and
\* takes the mapping out of the hash.  exit: sup_pt_destroy() starts with
\* the first mapping of the hash.
vm_teardown(t, op) ==
    /\ vm.panic = "" /\ vm.th[t].pc = "user"
    /\ op = "munmap" => 1 \in VMTable(vm, t)
    /\ vm.calls < MaxVMCalls
    /\ vm' =
        IF op = "munmap"
        THEN [vm EXCEPT !.pte[1].p = FALSE, !.map[1].state = "out",
                        !.calls = @ + 1,
                        !.th[t] = [VMUser EXCEPT !.pc = "destroy", !.op = op,
                                                 !.m = 1]]
        ELSE IF VMTable(vm, t) = {}
        THEN [vm EXCEPT !.th[t].pc = "dead", !.calls = @ + 1]
        ELSE [vm EXCEPT !.calls = @ + 1,
                        !.th[t] = [VMUser EXCEPT !.pc = "destroy", !.op = op,
                                        !.m = Min(VMTable(vm, t))]]
    /\ VMFrame

\* mapping_free() of a mapping that is not present: its swap slot is
\* released and the record is freed.
mapping_free(c, t, m) ==
    LET c1 == IF c.map[m].swapped /\ ~c.map[m].present
              THEN swaptbl_load(c, t, c.map[m].swap_slot) ELSE c
    IN  [c1 EXCEPT !.map[m].state = "freed", !.map[m].lock = NoThread,
                   !.frees[m] = @ \cup {"destroy"},
                   !.ub = @ \/ c.map[m].state = "freed"]

\* mapping_destroy() under the mapping's lock: a present mapping becomes an
\* orphan, and its frame goes to the file if the file is writable and the
\* page dirty; another mapping is freed.
mapping_destroy(c, t, m) ==
    LET c2 == [c EXCEPT !.map[m].lock = t]
        c3 == [c EXCEPT !.map[m].orphaned = TRUE, !.map[m].state = "out"]
    IN  IF c.map[m].present
        THEN IF c.map[m].fwrite /\ c.pte[m].d
             THEN [evict_to_file(c2, t, m) EXCEPT
                        !.map[m].orphaned = TRUE, !.map[m].state = "out",
                        !.map[m].lock = NoThread]
             ELSE c3
        ELSE mapping_free(c2, t, m)

\* mapping_destroy() of the mapping at hand; sup_pt_destroy() goes on with
\* the next mapping and ends with pagedir_destroy().
vm_destroy(t) ==
    LET m == vm.th[t].m
        c == mapping_destroy(vm, t, m)
        rest == VMTable(c, t)
    IN  /\ vm.panic = "" /\ vm.th[t].pc = "destroy"
        /\ vm.map[m].lock = NoThread
        /\ vm' =
            IF c.panic # "" THEN c
            ELSE IF vm.th[t].op = "munmap"
            THEN [c EXCEPT !.th[t] = VMUser, !.unmapped = @ \cup {m}]
            ELSE IF rest # {} THEN [c EXCEPT !.th[t].m = Min(rest)]
            ELSE [c EXCEPT !.th[t] = [VMUser EXCEPT !.pc = "dead"],
                           !.pte = [x \in Mappings |->
                                      IF MapOwner(x) = t
                                      THEN [@[x] EXCEPT !.p = FALSE]
                                      ELSE @[x]]]
        /\ VMFrame

\* vm_try_reset_accessed(): 0 without a mapping or for an orphan, -1 if the
\* mapping is locked, else the accessed bit.
vm_try_reset_accessed(c, m) ==
    IF m = NULL THEN 0
    ELSE IF c.map[m].orphaned THEN 0
    ELSE IF c.map[m].lock # NoThread THEN -1
    ELSE IF c.pte[m].a THEN 1 ELSE 0

\* The frames of a block of frametbl_tick().
TickFrames(block) ==
    {k + 1 : k \in ((NumFrames * block) \div TICK_BLOCK_CNT) ..
                   (((NumFrames * (block + 1)) \div TICK_BLOCK_CNT) - 1)}

\* frametbl_tick() in the timer interrupt: of every frame of the block
\* whose mapping is not locked the accessed bit is reset, and if the frame
\* can be pinned its age is shifted and the bit put on top.
frametbl_tick(block) ==
    LET a(f) == vm_try_reset_accessed(vm, vm.tbl[f].mapping)
        hit == {f \in TickFrames(block) : a(f) # -1}
        reset == {vm.tbl[f].mapping : f \in hit} \ {NULL}
    IN  /\ vm.panic = ""
        /\ \E t \in VMThreads : vm.th[t].pc # "dead"
        /\ vm.ticks < MaxVMTicks
        /\ vm' =
            [vm EXCEPT
                !.ticks = @ + 1,
                !.ub = @ \/ \E m \in reset : vm.map[m].state = "freed",
                !.pte = [m \in Mappings |->
                            IF m \in reset /\ ~vm.map[m].orphaned
                            THEN [@[m] EXCEPT !.a = FALSE] ELSE @[m]],
                !.tbl = [f \in Frames |->
                            IF f \in hit /\ @[f].lock = UNPINNED
                            THEN [@[f] EXCEPT !.age =
                                    (@ \div 2) + a(f) * 2^(AgeBits - 1)]
                            ELSE @[f]]]
        /\ VMFrame

\* The mapping that is resident in a frame at the start: the first page of
\* each process.
FirstPage(f) == IF f = 1 THEN 1 ELSE IF f = NumFrames THEN 3 ELSE NULL
FirstFrame(m) ==
    IF \E f \in Frames : FirstPage(f) = m
    THEN CHOOSE f \in Frames : FirstPage(f) = m ELSE NULL

\* After frametbl_create_in_buf(), the load of the processes (vm_set_page()
\* of every mapping) and the fault of each process on its first page: the
\* page is resident, clean and unpinned, the other frames are unused.
VMBoot(ages) ==
    [tbl |-> [f \in Frames |->
                [mapping |-> FirstPage(f), lock |-> UNPINNED, age |-> ages[f]]],
     unused |-> [k \in 1..(NumFrames - 2) |-> k + 1],
     lock |-> NoThread,
     hand |-> 0,
     map |-> [m \in Mappings |->
                [vm_set_page(MapKind(m)) EXCEPT
                    !.present = FirstFrame(m) # NULL, !.frame = FirstFrame(m)]],
     pte |-> [m \in Mappings |->
                [p |-> FirstFrame(m) # NULL, d |-> FALSE, a |-> FALSE,
                 frame |-> FirstFrame(m)]],
     mem |-> [f \in Frames |-> 0],
     slots |-> [s \in SwapSlots |-> [occupied |-> FALSE, data |-> 0]],
     filedata |-> [m \in Mappings |-> 0],
     th |-> [t \in VMThreads |-> VMUser],
     pinned |-> [t \in VMThreads |-> {}],
     buf |-> [t \in VMThreads |-> {}],
     panic |-> "",
     ub |-> FALSE,
     reinit |-> FALSE,
     want |-> [m \in Mappings |-> 0],
     evicted |-> [m \in Mappings |-> <<>>],
     frees |-> [m \in Mappings |-> {}],
     unmapped |-> {},
     calls |-> 0,
     ticks |-> 0]

\* init_fte() does not set the age of a frame; the table starts with the
\* ages 0.
InitVM == vm = VMBoot([f \in Frames |-> 0])

NextVM ==
    \/ \E t \in VMThreads, m \in Mappings : vm_store(t, m)
    \/ \E t \in VMThreads, op \in {"fault", "pin"}, m \in Mappings :
            vm_call(t, op, m)
    \/ \E t \in VMThreads : vm_unpin_pages(t)
    \/ \E t \in VMThreads : frametbl_get_frame(t)
    \/ \E t \in VMThreads : frame_to_evict(t)
    \/ \E t \in VMThreads : vm_evict_page(t)
    \/ \E t \in VMThreads : vm_evict_lock(t)
    \/ \E t \in VMThreads : vm_evict_clear(t)
    \/ \E t \in VMThreads : frametbl_empty_frame(t)
    \/ \E t \in VMThreads : init_fte(t)
    \/ \E t \in VMThreads : vm_load_fill(t)
    \/ \E t \in VMThreads, op \in {"munmap", "exit"} : vm_teardown(t, op)
    \/ \E t \in VMThreads : vm_destroy(t)
    \/ \E block \in 0..(TICK_BLOCK_CNT - 1) : frametbl_tick(block)

\* C21: frametbl_get_frame() returns a frame that its caller has pinned and
\* that no other thread holds or was given, with any number of threads
\* taking frames and evicting; the assertion that the frame taken from the
\* unused list can be pinned never fails.
C21_GetFramePinned ==
    /\ vm.panic # "frametbl_get_frame"
    /\ \A t \in VMThreads : vm.th[t].pc = "fill" =>
        /\ vm.tbl[vm.th[t].f].lock # UNPINNED
        /\ vm.th[t].f \in vm.pinned[t]
        /\ \A u \in VMThreads \ {t} :
            /\ vm.th[t].f \notin vm.pinned[u]
            /\ vm.th[u].pc = "fill" => vm.th[u].f # vm.th[t].f

\* C22: when frame_to_evict() returns, the frame it returns is pinned by the
\* scanning thread and by no other thread, its age is the lowest of the
\* frames the pass could pin, and the pass holds no pin on another frame.
C22_VictimPinnedByScanner ==
    [][\A t \in VMThreads :
        (vm.th[t].pc = "scan" /\ vm'.th[t].pc = "evict") =>
            /\ vm'.th[t].f \in vm'.pinned[t]
            /\ \A u \in VMThreads \ {t} : vm'.th[t].f \notin vm'.pinned[u]
            /\ vm'.th[t].scan = {vm'.th[t].f}
            /\ vm'.th[t].best_age = Min(vm'.th[t].seen)]_vars

\* C23: between vm_pin_pages() and vm_unpin_pages() the page is resident
\* and its frame is pinned by the caller and owned by the page's mapping,
\* whatever the other threads evict; the assertion of vm_pin_pages() on the
\* pin never fails.
C23_PinnedPagesStay ==
    /\ vm.panic # "vm_pin_pages"
    /\ \A t \in VMThreads : \A m \in vm.buf[t] :
        /\ vm.pte[m].p /\ vm.map[m].present
        /\ vm.pte[m].frame \in vm.pinned[t]
        /\ vm.tbl[vm.pte[m].frame].mapping = m

\* The mappings of the page tables whose lock nobody holds.
VMSettled == {m \in Mappings : vm.map[m].state = "table"
                                /\ vm.map[m].lock = NoThread}

\* C24: a mapping of a page table is present exactly when its frame is not
\* null and the frame table has the mapping as the owner of that frame; no
\* frame is the frame of two present mappings.
C24_PresentIffOwned ==
    /\ \A m \in VMSettled :
        vm.map[m].present <=>
            (vm.map[m].frame # NULL /\ vm.tbl[vm.map[m].frame].mapping = m)
    /\ \A m1, m2 \in VMSettled :
        (m1 # m2 /\ vm.map[m1].present /\ vm.map[m2].present)
            => vm.map[m1].frame # vm.map[m2].frame

\* The mapping records slot s: it is swapped and not present.
VMInSlot(m, s) ==
    /\ vm.map[m].state # "freed" /\ vm.map[m].swapped /\ ~vm.map[m].present
    /\ vm.map[m].swap_slot = s

\* C25: while no mapping is locked, a swap slot is occupied exactly when a
\* mapping that is swapped and not present records it, and no two such
\* mappings record the same slot: the slot of a page that was loaded back
\* or whose mapping was destroyed is free.
C25_SwapSlotsOwned ==
    (\A m \in Mappings : vm.map[m].lock = NoThread) =>
        /\ \A s \in SwapSlots :
            vm.slots[s].occupied <=> \E m \in Mappings : VMInSlot(m, s)
        /\ \A s \in SwapSlots : \A m1, m2 \in Mappings :
            (VMInSlot(m1, s) /\ VMInSlot(m2, s)) => m1 = m2

\* C26: an anonymous page or a page of the data segment that was evicted
\* is loaded with the contents its frame had when it was evicted.
C26_ReloadGivesEvicted ==
    [][\A m \in Mappings :
        (MapKind(m) # "mmap" /\ ~vm.pte[m].p /\ vm'.pte[m].p
            /\ vm.evicted[m] # <<>>)
        => vm'.mem[vm'.pte[m].frame] = vm.evicted[m][1]]_vars

\* C27: no store to a resident page is lost by an eviction: a page of a
\* page table holds, in its frame or in what it is loaded from, the value
\* its process stored last.
C27_NoStoreLost ==
    \A m \in VMSettled : PageValue(vm, m) = vm.want[m]

\* C28: a mapping record is freed once, by the teardown if its page was not
\* resident and by the thread that evicts its frame if it was made an
\* orphan, and no freed record is used.
C28_FreedOnce ==
    /\ ~vm.ub
    /\ \A m \in Mappings :
        /\ vm.map[m].state = "freed" <=> vm.frees[m] # {}
        /\ vm.map[m].state = "freed" =>
            vm.frees[m] = IF vm.map[m].orphaned THEN {"evict"} ELSE {"destroy"}

\* C29: after munmap() of the memory-mapped file has returned, the file
\* holds the value the process stored last to the page.
C29_MunmapWritesBack ==
    \A m \in vm.unmapped : vm.filedata[m] = vm.want[m]

\* C30: a thread that acquires a mapping lock, the frame table's lock or a
\* frame pin holds no lock that comes later in the hierarchy.
C30_LockOrder ==
    [][\A t \in VMThreads : \A l \in VMHeld(vm', t) \ VMHeld(vm, t) :
        \A h \in VMHeld(vm, t) : LockRank(h[1]) <= LockRank(l[1])]_vars

(***************************************************************************)
(* Memory-mapped files: sys_mmap() and sys_munmap() of userprog/syscall.c  *)
(* with vm_set_page(), vm_page_get_mapping_end() and vm_clear_page() of    *)
(* vm/mappings.c.  One process maps one file, which grows when the process *)
(* writes past its end.  Addresses are counted in pages and lengths in     *)
(* bytes of a scaled page; the pages above the mappable ones hold the      *)
(* stack.                                                                  *)
(***************************************************************************)
MmFrame == UNCHANGED <<rwVars, fmVars, inVars, fsVars, caVars, file, sdir,
                       cdir, vm, cfile>>

\* PGSIZE of the scaled address space.
MmPageSize == 2
\* The pages below the stack, page 0 left out.
MaxMmPage == 4
\* Pages of the stack.
MmStackPages == 2
\* Largest length of the file.
MaxFileLength == 6
\* System calls of the process.
MaxMmCalls == 4

MmPages == 1..(MaxMmPage + MmStackPages)
\* pg_no() of thread_current()->stack_pointer.
MmStackPointer == MaxMmPage + 1

\* No mapping for a page in the supplemental page table.
MmNone == [kind |-> "none", map_start |-> FALSE, id |-> 0]

\* pg_no() of vm_page_get_mapping_end(): pg_round_down(upage + len - 1)
\* with len = file_length() of the mapping's file.
vm_page_get_mapping_end(m, upage) ==
    (upage * MmPageSize + m.length - 1) \div MmPageSize

\* sys_write() that extends the file: inode_write_at() raises the length.
mm_write(len) ==
    /\ mm.state = "ok" /\ mm.calls < MaxMmCalls
    /\ len > mm.length
    /\ mm' = [mm EXCEPT !.length = len, !.calls = @ + 1,
                        !.last = [op |-> "write"]]
    /\ MmFrame

\* sys_mmap(fd, addr): the pages of the file at its present length are
\* installed from addr on, the first flagged MAP_START; n is the number of
\* pages for which vm_set_page() finds memory.
sys_mmap(addr, n) ==
    LET len == mm.length
        pages == {p \in MmPages :
                    p >= addr /\ p * MmPageSize < addr * MmPageSize + len}
        set == {p \in pages : p < addr + n}
        ok == /\ len # 0
              /\ addr * MmPageSize + len < MmStackPointer * MmPageSize
              /\ \A p \in pages : mm.map[p].kind = "none"
    IN  /\ mm.state = "ok" /\ mm.calls < MaxMmCalls
        /\ mm' = IF ok
                 THEN [mm EXCEPT
                        !.map = [p \in MmPages |->
                                    IF p \in set
                                    THEN [kind |-> "file",
                                          map_start |-> p = addr, id |-> addr]
                                    ELSE @[p]],
                        !.installed[addr] = set,
                        !.whole = IF set = pages THEN @ \cup {addr}
                                  ELSE @ \ {addr},
                        !.calls = @ + 1,
                        !.last = [op |-> "mmap", ok |-> set = pages]]
                 ELSE [mm EXCEPT !.calls = @ + 1,
                                 !.last = [op |-> "mmap", ok |-> FALSE]]
        /\ MmFrame

\* sys_munmap(mapping): process_terminate() unless the page starts a file
\* mapping; vm_clear_page() of every page from the first to the one that
\* vm_page_get_mapping_end() returns, mapping_delete() asserting that the
\* page has a mapping.
sys_munmap(first) ==
    LET last == vm_page_get_mapping_end(mm, first)
        range == first..last
        \* the pages cleared before an assertion fails, if one does
        cleared == {p \in range :
                        \A q \in first..p :
                            q \in MmPages /\ mm.map[q].kind # "none"}
    IN  /\ mm.state = "ok" /\ mm.calls < MaxMmCalls
        /\ mm' =
            IF ~mm.map[first].map_start
            THEN [mm EXCEPT !.state = "terminated", !.calls = @ + 1,
                            !.last = [op |-> "munmap", ok |-> FALSE]]
            ELSE [mm EXCEPT
                    !.map = [p \in MmPages |->
                                IF p \in cleared THEN MmNone ELSE @[p]],
                    !.state = IF cleared = range THEN "ok" ELSE "panic",
                    !.whole = @ \ {first},
                    !.calls = @ + 1,
                    !.last = [op |-> "munmap", ok |-> TRUE,
                              whole |-> first \in mm.whole,
                              removed |-> cleared,
                              installed |-> mm.installed[first]]]
        /\ MmFrame

InitMm ==
    mm = [length |-> 0,
          map |-> [p \in MmPages |->
                      IF p > MaxMmPage
                      THEN [kind |-> "stack", map_start |-> FALSE, id |-> 0]
                      ELSE MmNone],
          installed |-> [p \in MmPages |-> {}], whole |-> {},
          state |-> "ok", calls |-> 0, last |-> [op |-> "none"]]

NextMm ==
    \/ \E len \in 1..MaxFileLength : mm_write(len)
    \/ \E addr \in 1..MaxMmPage, n \in 0..MaxMmPage : sys_mmap(addr, n)
    \/ \E first \in 1..MaxMmPage : sys_munmap(first)

\* C40: a munmap of a mapping whose mmap succeeded returns, and the pages
\* it has removed are the pages that the mmap installed.
C40_MunmapRemovesInstalled ==
    (mm.last.op = "munmap" /\ mm.last.ok /\ mm.last.whole) =>
        /\ mm.state = "ok"
        /\ mm.last.removed = mm.last.installed

(***************************************************************************)
(* The specifications, one per component.                                  *)
(***************************************************************************)
InitSpecRW == InitRW /\ InitFreeMapIdle /\ InitInode /\ InitFsIdle /\ InitCache
    /\ InitFile /\ InitSDirIdle /\ InitCDir /\ InitVM
    /\ InitCFileIdle /\ InitMm
SpecRW == InitSpecRW /\ [][NextRW]_vars

InitSpecFreeMap == InitFreeMap /\ InitRW /\ InitInode /\ InitFsIdle /\ InitCache
    /\ InitFile /\ InitSDirIdle /\ InitCDir /\ InitVM
    /\ InitCFileIdle /\ InitMm
SpecFreeMap == InitSpecFreeMap /\ [][NextFreeMap]_vars

InitSpecInode == InitInode /\ InitRW /\ InitFreeMapIdle /\ InitFsIdle /\ InitCache
    /\ InitFile /\ InitSDirIdle /\ InitCDir /\ InitVM
    /\ InitCFileIdle /\ InitMm
SpecInode == InitSpecInode /\ [][NextInode]_vars

InitSpecFs == InitFs /\ InitRW /\ InitFreeMapIdle /\ InitInode /\ InitCache
    /\ InitFile /\ InitSDirIdle /\ InitCDir /\ InitVM
    /\ InitCFileIdle /\ InitMm
SpecFs == InitSpecFs /\ [][NextFs]_vars

InitSpecCache == InitCache /\ InitRW /\ InitFreeMapIdle /\ InitInode /\ InitFsIdle
    /\ InitFile /\ InitSDirIdle /\ InitCDir /\ InitVM
    /\ InitCFileIdle /\ InitMm
SpecCache == InitSpecCache /\ [][NextCache]_vars

InitSpecFile == InitFile /\ InitRW /\ InitFreeMapIdle /\ InitInode /\ InitFsIdle
    /\ InitCache /\ InitSDirIdle /\ InitCDir /\ InitVM
    /\ InitCFileIdle /\ InitMm
SpecFile == InitSpecFile /\ [][NextFile]_vars

InitSpecSDir == InitSDir /\ InitRW /\ InitFreeMapIdle /\ InitInode /\ InitFsIdle
    /\ InitCache /\ InitFile /\ InitCDir /\ InitVM
    /\ InitCFileIdle /\ InitMm
SpecSDir == InitSpecSDir /\ [][NextSDir]_vars

InitSpecCDir == InitCDir /\ InitRW /\ InitFreeMapIdle /\ InitInode /\ InitFsIdle
    /\ InitCache /\ InitFile /\ InitSDirIdle /\ InitVM
    /\ InitCFileIdle /\ InitMm
SpecCDir == InitSpecCDir /\ [][NextCDir]_vars

InitSpecVM == InitVM /\ InitRW /\ InitFreeMapIdle /\ InitInode /\ InitFsIdle
    /\ InitCache /\ InitFile /\ InitSDirIdle /\ InitCDir
    /\ InitCFileIdle /\ InitMm

SpecVM == InitSpecVM /\ [][NextVM]_vars

InitSpecCFile == InitCFile /\ InitRW /\ InitFreeMapIdle /\ InitInode /\ InitFsIdle
    /\ InitCache /\ InitFile /\ InitSDirIdle /\ InitCDir /\ InitVM /\ InitMm
SpecCFile == InitSpecCFile /\ [][NextCFile]_vars

InitSpecMm == InitMm /\ InitRW /\ InitFreeMapIdle /\ InitInode /\ InitFsIdle
    /\ InitCache /\ InitFile /\ InitSDirIdle /\ InitCDir /\ InitVM
    /\ InitCFileIdle
SpecMm == InitSpecMm /\ [][NextMm]_vars

SpecWorkers == InitSpecCache /\ [][NextWorkers]_vars

=============================================================================
